---------------------------- MODULE Spec2Model ----------------------------
(***************************************************************************)
(* A model of the layout reconstruction engine of pdf-image-extractor:     *)
(* the colour normalizers, the line/paragraph merger, the column           *)
(* detector, the link resolver, the structured element assembler, the      *)
(* layout extractor and the two renderers.  Every component is one state  *)
(* machine over its own variables; each specification runs one component   *)
(* and parks the others.  Coordinates and font sizes are integers (points); thresholds   *)
(* that the code writes as float products (0.6 * avg, 0.25 * W, ...) are   *)
(* compared in exact integer arithmetic, which agrees with the float       *)
(* comparison on every integer input of the ranges used here.              *)
(***************************************************************************)
EXTENDS Integers, Sequences, FiniteSets, TLC

VARIABLES
    \* colour normalizers
    color,              \* the value handed to the normalizers
    color_to_hex_out,   \* what _color_to_hex returned for it
    hex_color_out,      \* what _hex_color returned for it
    pcColor,
    \* _merge_spans_to_blocks
    raw_blocks,         \* the raw text blocks read so far
    lines,              \* the merged lines of step 1
    line_idx,           \* index in lines of the next line of step 2
    current,            \* the running paragraph
    cur_line,           \* index of the line whose bbox list current shares
    paragraphs,         \* the paragraphs closed so far / returned
    pcMerge,
    \* _detect_column_split
    text_blocks,        \* the section's text blocks
    page_width,
    split_out,          \* what _detect_column_split returned
    pcCol,
    \* _overlaps
    block_bbox,         \* the bbox a of the block
    link_bbox,          \* the bbox b of the link
    overlaps_out,       \* what _overlaps returned
    pcOverlap,
    \* extract_structured
    PHASH_AVAILABLE,    \* _PHASH_AVAILABLE: PIL and imagehash were imported
    page_count,         \* len(doc)
    doc_open,           \* the document handle is open
    page_idx,
    page_images,        \* page.get_images(full=True) of the page processed last
    shape_elements,     \* of the page processed last
    image_elements,
    text_elements,
    result_pages,       \* result["pages"]
    pcStruct,
    \* extract_layout (layout_extractor.py) and its renderings
    layout_page_count,  \* doc.page_count
    layout_doc_open,    \* the document has not been closed
    pno,                \* the page index of the loop
    blocks_out,         \* the blocks of the page being assembled
    seen_xrefs,         \* the xrefs met on the page
    result,             \* the layout: pages and image_files
    assets_base_url,    \* where the endpoint serves the images
    html,               \* what render_html returned
    html_exact,         \* what render_html_exact returned
    pcLayout,
    \* _escape and the literals the renderers embed
    literal,            \* the literal content
    escaped,            \* what _escape returned for it
    literal_html,       \* render_html of the page made of the literal
    literal_html_exact, \* render_html_exact of that page
    pcEscape,
    \* _split_sections
    section_blocks,     \* the blocks of the page
    sections_out,       \* what _split_sections returned
    pcSections,
    \* sessions, the cleanup task and GET /images
    enable_public_urls, \* settings.enable_public_urls
    now,                \* datetime.now(), in hours
    sessions,           \* SessionManager._sessions: id -> expires_at
    issued,             \* every id create_session returned -> its expires_at
    session_dirs,       \* the ids whose directory is on disk
    cleanup_task_running,
    pcCleanup,          \* where session_cleanup_task stands
    last_response,      \* the answer to the last GET /images
    \* POST /extract and POST /extract-from-url
    request_public_urls, \* settings.enable_public_urls
    request_no,         \* the number of the request being handled
    endpoint,
    disk,               \* the files and directories the requests left
    output_dir,         \* the handler's output_dir is not None
    zip_path,           \* the handler's zip_path is not None
    request_status,     \* the status the request is answered with
    pcRequest,
    \* the style of one text block
    style_size,         \* the block's size
    style_flags,        \* the block's flags
    style_font,         \* the block's font name
    tag_out,            \* what _tag returned
    exact_style,        \* font-weight and font-style of render_html_exact
    inferred_style,     \* _infer_font_weight and _infer_font_style
    style_called,       \* which of the three have been applied
    \* SessionManager called from several threads
    registered,         \* the ids in SessionManager._sessions
    dirs_on_disk,       \* the ids whose session directory exists
    past_expiry,        \* the ids with now >= expires_at
    thread,             \* per thread: the call it makes and where it stands
    removed_count       \* how many sessions were removed from the registry

colorVars == <<color, color_to_hex_out, hex_color_out, pcColor>>

mergeVars == <<raw_blocks, lines, line_idx, current, cur_line, paragraphs, pcMerge>>

colVars == <<text_blocks, page_width, split_out, pcCol>>

overlapVars == <<block_bbox, link_bbox, overlaps_out, pcOverlap>>

structVars == <<PHASH_AVAILABLE, page_count, doc_open, page_idx, page_images, shape_elements,
                image_elements, text_elements, result_pages, pcStruct>>

layoutVars == <<layout_page_count, layout_doc_open, pno, blocks_out, seen_xrefs,
                result, assets_base_url, html, html_exact, pcLayout>>

escapeVars == <<literal, escaped, literal_html, literal_html_exact, pcEscape>>

sectionsVars == <<section_blocks, sections_out, pcSections>>

sessionVars == <<enable_public_urls, now, sessions, issued, session_dirs,
                 cleanup_task_running, pcCleanup, last_response>>

requestVars == <<request_public_urls, request_no, endpoint, disk, output_dir,
                 zip_path, request_status, pcRequest>>

styleVars == <<style_size, style_flags, style_font, tag_out, exact_style,
               inferred_style, style_called>>

threadsVars == <<registered, dirs_on_disk, past_expiry, thread, removed_count>>

vars == <<colorVars, mergeVars, colVars, overlapVars, structVars, layoutVars, escapeVars, sectionsVars, sessionVars, requestVars, styleVars, threadsVars>>

(***************************************************************************)
(* Python values.  A value is a record tagged by its type:                 *)
(*   [t |-> "none"]                 None                                   *)
(*   [t |-> "int",   v |-> n]       an int                                 *)
(*   [t |-> "float", q |-> k]       the float k / FloatDenom               *)
(*   [t |-> "inf"], [t |-> "nan"]   the non-finite floats                  *)
(*   [t |-> "seq",   items |-> s]   a list or tuple of values              *)
(*   [t |-> "str",   s |-> chars]   a string, as a sequence of characters  *)
(* and a call that raises yields [t |-> "raise", exc |-> name].            *)
(***************************************************************************)
PyNone == [t |-> "none"]
PyInt(n) == [t |-> "int", v |-> n]
PyFloat(k) == [t |-> "float", q |-> k]
PyInf == [t |-> "inf"]
PyNan == [t |-> "nan"]
PySeq(s) == [t |-> "seq", items |-> s]
PyStr(s) == [t |-> "str", s |-> s]
Raises(e) == [t |-> "raise", exc |-> e]

\* No value yet: the call has not returned.
Pending == [t |-> "pending"]

\* Floats are multiples of 1/FloatDenom (a power of two, so c * 255 is exact).
FloatDenom == 4

HexChars == <<"0", "1", "2", "3", "4", "5", "6", "7",
              "8", "9", "a", "b", "c", "d", "e", "f">>

HexChar(d) == HexChars[d + 1]

RECURSIVE HexDigits(_)
\* The hexadecimal digits of n >= 0, most significant first, no padding.
HexDigits(n) ==
    IF n < 16 THEN <<HexChar(n)>>
    ELSE HexDigits(n \div 16) \o <<HexChar(n % 16)>>

RECURSIVE ZeroPad(_, _)
ZeroPad(s, w) == IF Len(s) >= w THEN s ELSE ZeroPad(<<"0">> \o s, w)

\* Python's format(n, "0<w>x"): sign first, then zeros up to the width w,
\* never truncating.
FormatHex(n, w) ==
    IF n >= 0 THEN ZeroPad(HexDigits(n), w)
    ELSE <<"-">> \o ZeroPad(HexDigits(-n), w - 1)

\* int(x) of the rational a / d: truncation toward zero.
Trunc(a, d) == IF a >= 0 THEN a \div d ELSE -((-a) \div d)

IsDecimal(s) ==
    /\ Len(s) > 0
    /\ \A i \in 1..Len(s) : \E d \in 0..9 : s[i] = HexChar(d)

RECURSIVE ParseDecimal(_)
ParseDecimal(s) ==
    IF Len(s) = 0 THEN 0
    ELSE 10 * ParseDecimal(SubSeq(s, 1, Len(s) - 1))
         + (CHOOSE d \in 0..9 : s[Len(s)] = HexChar(d))

(***************************************************************************)
(* Python's int(x): the int, or the exception it raises.  Strings are      *)
(* plain character sequences here (no sign, blank or underscore), so a     *)
(* string parses exactly when it is all decimal digits.                    *)
(***************************************************************************)
PyIntOf(x) ==
    CASE x.t = "int"   -> PyInt(x.v)
      [] x.t = "float" -> PyInt(Trunc(x.q, FloatDenom))
      [] x.t = "inf"   -> Raises("OverflowError")
      [] x.t = "nan"   -> Raises("ValueError")
      [] x.t = "str"   -> IF IsDecimal(x.s) THEN PyInt(ParseDecimal(x.s))
                          ELSE Raises("ValueError")
      [] OTHER         -> Raises("TypeError")

RECURSIVE Repeat(_, _)
\* The string s * n
Repeat(s, n) == IF n <= 0 THEN <<>> ELSE s \o Repeat(s, n - 1)

\* int(c * 255) for one component c of a colour.
PyIntTimes255(c) ==
    CASE c.t = "int"   -> PyInt(c.v * 255)
      [] c.t = "float" -> PyInt(Trunc(c.q * 255, FloatDenom))
      [] c.t = "inf"   -> Raises("OverflowError")
      [] c.t = "nan"   -> Raises("ValueError")
      [] c.t = "str"   -> \* s * 255 repeats the string
                          PyIntOf(PyStr(Repeat(c.s, 255)))
      [] c.t = "seq"   -> Raises("TypeError")   \* int() of a list
      [] OTHER         -> Raises("TypeError")   \* None * 255

Mask24 == 16777215

Black == PyStr(<<"#", "0", "0", "0", "0", "0", "0">>)

Caught(r) == r.t = "raise" /\ r.exc \in {"TypeError", "ValueError"}

(***************************************************************************)
(* _color_to_hex (structured_extractor.py)                                 *)
(***************************************************************************)
PackedIntHexUnmasked(v) == PyStr(<<"#">> \o FormatHex(v, 6))

\* f"#{color & 0xFFFFFF:06x}": Python's & of a negative int is the residue.
PackedIntHex(v) == PyStr(<<"#">> \o FormatHex(v % (Mask24 + 1), 6))

_color_to_hex(color_) ==
    CASE color_.t = "none" -> PyNone
      [] color_.t = "seq" /\ Len(color_.items) >= 3 ->
            LET r == PyIntTimes255(color_.items[1])
                g == PyIntTimes255(color_.items[2])
                b == PyIntTimes255(color_.items[3])
                first == IF r.t = "raise" THEN r
                         ELSE IF g.t = "raise" THEN g
                         ELSE IF b.t = "raise" THEN b
                         ELSE PyNone
            IN  IF first.t = "raise"
                THEN (IF Caught(first) THEN PyNone ELSE first)
                ELSE PyStr(<<"#">> \o FormatHex(r.v, 2)
                                   \o FormatHex(g.v, 2)
                                   \o FormatHex(b.v, 2))
      [] color_.t = "int" -> PackedIntHex(color_.v)
      [] color_.t \in {"float", "inf", "nan"} ->
            LET v == PyIntTimes255(color_)
            IN  IF v.t = "raise" THEN v
                ELSE PyStr(<<"#">> \o FormatHex(v.v, 2)
                                   \o FormatHex(v.v, 2)
                                   \o FormatHex(v.v, 2))
      [] OTHER -> PyNone

(***************************************************************************)
(* _hex_color (layout_extractor.py)                                        *)
(***************************************************************************)
HexColorKeepsStrings(c) ==
    IF c.t = "str" THEN c
    ELSE LET n == PyIntOf(c)
         IN  IF n.t = "raise" THEN (IF Caught(n) THEN Black ELSE n)
             ELSE PyStr(<<"#">> \o FormatHex(n.v, 6))

_hex_color(c) ==
    LET n == PyIntOf(c)
    IN  IF n.t = "raise" THEN (IF Caught(n) THEN Black ELSE n)
        ELSE PyStr(<<"#">> \o FormatHex(n.v, 6))

(***************************************************************************)
(* _merge_spans_to_blocks (layout_extractor.py).  Strings are sequences of *)
(* characters; a bbox is <<x0, y0, x1, y1>>.                               *)
(***************************************************************************)
Min(a, b) == IF a <= b THEN a ELSE b
Max(a, b) == IF a >= b THEN a ELSE b
Abs(a) == IF a >= 0 THEN a ELSE -a

RECURSIVE LStrip(_)
LStrip(s) == IF Len(s) > 0 /\ Head(s) = " " THEN LStrip(Tail(s)) ELSE s

RECURSIVE RStrip(_)
RStrip(s) ==
    IF Len(s) > 0 /\ s[Len(s)] = " " THEN RStrip(SubSeq(s, 1, Len(s) - 1))
    ELSE s

\* str.strip()
Strip(s) == RStrip(LStrip(s))

RECURSIVE JoinSpace(_)
\* " ".join(texts)
JoinSpace(texts) ==
    IF Len(texts) = 0 THEN <<>>
    ELSE IF Len(texts) = 1 THEN texts[1]
    ELSE texts[1] \o <<" ">> \o JoinSpace(Tail(texts))

RECURSIVE MinOver(_, _)
MinOver(spans, k) ==
    IF Len(spans) = 1 THEN spans[1].bbox[k]
    ELSE Min(spans[1].bbox[k], MinOver(Tail(spans), k))

RECURSIVE MaxOver(_, _)
MaxOver(spans, k) ==
    IF Len(spans) = 1 THEN spans[1].bbox[k]
    ELSE Max(spans[1].bbox[k], MaxOver(Tail(spans), k))

RECURSIVE Dominant(_)
\* max(line_spans, key=size): the first span of the largest size.
Dominant(spans) ==
    IF Len(spans) = 1 THEN spans[1]
    ELSE LET rest == Dominant(Tail(spans))
         IN  IF spans[1].size >= rest.size THEN spans[1] ELSE rest

\* The spans of one raw line that keep a non-empty text, stripped.
LineSpans(raw_line) ==
    LET kept == SelectSeq(raw_line, LAMBDA sp : Strip(sp.text) # <<>>)
    IN  [k \in 1..Len(kept) |->
            [text  |-> Strip(kept[k].text),
             bbox  |-> kept[k].bbox,
             font  |-> kept[k].font,
             size  |-> kept[k].size,
             color |-> _hex_color(kept[k].color),
             flags |-> kept[k].flags]]

\* The merged line of a raw line with at least one kept span.
MergedLine(line_spans) ==
    LET dominant == Dominant(line_spans)
    IN  [type  |-> "text",
         bbox  |-> <<MinOver(line_spans, 1), MinOver(line_spans, 2),
                     MaxOver(line_spans, 3), MaxOver(line_spans, 4)>>,
         text  |-> JoinSpace([k \in 1..Len(line_spans) |-> line_spans[k].text]),
         font  |-> dominant.font,
         size  |-> dominant.size,
         color |-> dominant.color,
         flags |-> dominant.flags]

RECURSIVE LinesOfRawLines(_)
LinesOfRawLines(raw_lines) ==
    IF Len(raw_lines) = 0 THEN <<>>
    ELSE LET line_spans == LineSpans(raw_lines[1])
         IN  (IF Len(line_spans) = 0 THEN <<>> ELSE <<MergedLine(line_spans)>>)
             \o LinesOfRawLines(Tail(raw_lines))

\* Step 1 for one raw block: blocks that are not text (type 0) give nothing.
LinesOfBlock(b) == IF b.type # 0 THEN <<>> ELSE LinesOfRawLines(b.lines)

ShouldMergeSizeUpTo3(cur, line) ==
    /\ 10 * (line.bbox[2] - cur.bbox[4]) <= 3 * (cur.size + line.size)
    /\ Abs(line.size - cur.size) <= 3
    /\ Abs(line.bbox[1] - cur.bbox[1]) < 50

\* gap <= merge_gap and same_size and similar_x, with
\* merge_gap = (cur.size + line.size) / 2 * 0.6.
ShouldMerge(cur, line) ==
    /\ 10 * (line.bbox[2] - cur.bbox[4]) <= 3 * (cur.size + line.size)
    /\ Abs(line.size - cur.size) < 3
    /\ Abs(line.bbox[1] - cur.bbox[1]) < 50

\* The running paragraph after the line is merged into it.
Extend(cur, line) ==
    [cur EXCEPT !.text = cur.text \o <<" ">> \o line.text,
                !.bbox = <<cur.bbox[1], cur.bbox[2],
                           Max(cur.bbox[3], line.bbox[3]), line.bbox[4]>>]

NoParagraph == [type |-> "none"]

MaxRawBlocks == 3

\* Sample spans: height 10, width 100.
Span(text, x0, y0, size) ==
    [text |-> text, bbox |-> <<x0, y0, x0 + 100, y0 + 10>>,
     font |-> "Helvetica", size |-> size, color |-> PyInt(0), flags |-> 0]

TextAt(y0) ==
    CASE y0 = 0 -> <<"a">> [] y0 = 15 -> <<"b">> [] y0 = 16 -> <<"c">>
      [] y0 = 18 -> <<"d">> [] OTHER -> <<"j">>

SpanSamples ==
    {Span(TextAt(y0), 10, y0, size) : y0 \in {0, 15, 16, 18, 33}, size \in {10, 12}}
    \cup {Span(<<"e">>, x0, 15, 12) : x0 \in {59, 60}}
    \cup {Span(<<"f">>, 10, 15, size) : size \in {14, 15}}
    \cup {Span(<<"k">>, 59, 0, 12)}

RawLineSamples ==
    {<<sp>> : sp \in SpanSamples}
    \cup {<<Span(<<" ">>, 10, 0, 12)>>,
          <<Span(<<" ", "g">>, 10, 30, 10), Span(<<" ">>, 200, 30, 20),
            Span(<<"h", " ">>, 120, 31, 12), Span(<<"i">>, 230, 29, 12)>>}

RawBlockSamples ==
    {[type |-> 0, lines |-> <<rl>>] : rl \in RawLineSamples}
    \cup {[type |-> 1, lines |-> <<>>]}

MergeInit ==
    /\ raw_blocks = <<>>
    /\ lines = <<>>
    /\ line_idx = 0
    /\ current = NoParagraph
    /\ cur_line = 0
    /\ paragraphs = <<>>
    /\ pcMerge = "collect"

MergeIdle ==
    /\ raw_blocks = <<>>
    /\ lines = <<>>
    /\ line_idx = 0
    /\ current = NoParagraph
    /\ cur_line = 0
    /\ paragraphs = <<>>
    /\ pcMerge = "idle"

\* Step 1, one iteration of "for b in raw_blocks".
CollectBlock ==
    /\ pcMerge = "collect"
    /\ Len(raw_blocks) < MaxRawBlocks
    /\ \E b \in RawBlockSamples :
          /\ raw_blocks' = Append(raw_blocks, b)
          /\ lines' = lines \o LinesOfBlock(b)
    /\ UNCHANGED <<line_idx, current, cur_line, paragraphs, pcMerge>>
    /\ UNCHANGED <<colorVars, colVars, overlapVars, structVars, layoutVars, escapeVars, sectionsVars, sessionVars, requestVars, styleVars, threadsVars>>

\* "if not lines: return []"
ReturnEmpty ==
    /\ pcMerge = "collect"
    /\ lines = <<>>
    /\ pcMerge' = "done"
    /\ UNCHANGED <<raw_blocks, lines, line_idx, current, cur_line, paragraphs>>
    /\ UNCHANGED <<colorVars, colVars, overlapVars, structVars, layoutVars, escapeVars, sectionsVars, sessionVars, requestVars, styleVars, threadsVars>>

\* "current = dict(lines[0])": a shallow copy, the bbox list is shared.
StartParagraphs ==
    /\ pcMerge = "collect"
    /\ lines # <<>>
    /\ current' = lines[1]
    /\ cur_line' = 1
    /\ line_idx' = 2
    /\ pcMerge' = "merge"
    /\ UNCHANGED <<raw_blocks, lines, paragraphs>>
    /\ UNCHANGED <<colorVars, colVars, overlapVars, structVars, layoutVars, escapeVars, sectionsVars, sessionVars, requestVars, styleVars, threadsVars>>

\* Step 2, one iteration of "for line in lines[1:]".
MergeLine ==
    /\ pcMerge = "merge"
    /\ line_idx <= Len(lines)
    /\ LET line == lines[line_idx]
       IN  IF ShouldMerge(current, line)
           THEN /\ current' = Extend(current, line)
                /\ lines' = [lines EXCEPT ![cur_line].bbox = current'.bbox]
                /\ UNCHANGED <<paragraphs, cur_line>>
           ELSE /\ paragraphs' = Append(paragraphs, current)
                /\ current' = line
                /\ cur_line' = line_idx
                /\ UNCHANGED lines
    /\ line_idx' = line_idx + 1
    /\ UNCHANGED <<raw_blocks, pcMerge>>
    /\ UNCHANGED <<colorVars, colVars, overlapVars, structVars, layoutVars, escapeVars, sectionsVars, sessionVars, requestVars, styleVars, threadsVars>>

\* "paragraphs.append(current); return paragraphs"
ReturnParagraphs ==
    /\ pcMerge = "merge"
    /\ line_idx > Len(lines)
    /\ paragraphs' = Append(paragraphs, current)
    /\ pcMerge' = "done"
    /\ UNCHANGED <<raw_blocks, lines, line_idx, current, cur_line>>
    /\ UNCHANGED <<colorVars, colVars, overlapVars, structVars, layoutVars, escapeVars, sectionsVars, sessionVars, requestVars, styleVars, threadsVars>>

MergeNext ==
    CollectBlock \/ ReturnEmpty \/ StartParagraphs \/ MergeLine \/ ReturnParagraphs

\* The three tests of the merge rule, on the running paragraph and the line.
AllThreeHold(cur, line) ==
    /\ 20 * (line.bbox[2] - cur.bbox[4]) <= 6 * (cur.size + line.size)
    /\ Abs(line.size - cur.size) < 3
    /\ Abs(line.bbox[1] - cur.bbox[1]) < 50

LineMerged(line) ==
    /\ paragraphs' = paragraphs
    /\ current'.text = current.text \o <<" ">> \o line.text

ParagraphStarted(line) ==
    /\ paragraphs' = Append(paragraphs, current)
    /\ current'.text = line.text
    /\ current'.size = line.size

\* C1: every step of the paragraph loop merges the line into the running
\* paragraph if and only if gap <= 0.6 * average size, size difference < 3
\* and x0 difference < 50, and starts a new paragraph otherwise; two
\* size-12 lines with the same x0 merge at gap 5 and do not at gap 8.
C1_MergeIffAllThree ==
    [][(pcMerge = "merge" /\ line_idx' = line_idx + 1) =>
         LET line == lines[line_idx]
             gap == line.bbox[2] - current.bbox[4]
         IN  /\ LineMerged(line) <=> AllThreeHold(current, line)
             /\ ParagraphStarted(line) <=> ~AllThreeHold(current, line)
             /\ (current.size = 12 /\ line.size = 12
                    /\ current.bbox[1] = line.bbox[1])
                  => /\ gap = 5 => LineMerged(line)
                     /\ gap = 8 => ParagraphStarted(line)]_vars

\* One line was merged at gap 5 and one started a paragraph at gap 8.
C1_Witness ==
    /\ pcMerge = "done"
    /\ Len(lines) = 3
    /\ Len(paragraphs) = 2
    /\ paragraphs[1].text = <<"a", " ", "b">>
    /\ paragraphs[1].size = 12
    /\ paragraphs[2].size = 12
    /\ paragraphs[2].bbox[2] = paragraphs[1].bbox[4] + 8

RECURSIVE TopsAscending(_)
TopsAscending(blocks) ==
    \/ Len(blocks) <= 1
    \/ /\ blocks[1].bbox[2] <= blocks[2].bbox[2]
       /\ TopsAscending(Tail(blocks))

\* C19: whatever the order of the raw blocks, the lines the paragraph loop
\* walks are in ascending order of top, and so are the paragraphs returned.
C19_LinesAndParagraphsInTopOrder ==
    /\ pcMerge \in {"merge", "done"} => TopsAscending(lines)
    /\ pcMerge = "done" => TopsAscending(paragraphs)

RECURSIVE LinesOf(_)
\* The lines of step 1 as they were appended, before the paragraph loop
\* writes to the bbox it shares with the running paragraph.
LinesOf(blocks) ==
    IF Len(blocks) = 0 THEN <<>>
    ELSE LinesOfBlock(blocks[1]) \o LinesOf(Tail(blocks))

RECURSIVE UnionBbox(_)
UnionBbox(merged) ==
    IF Len(merged) = 1 THEN merged[1].bbox
    ELSE LET rest == UnionBbox(Tail(merged))
         IN  <<Min(merged[1].bbox[1], rest[1]), Min(merged[1].bbox[2], rest[2]),
               Max(merged[1].bbox[3], rest[3]), Max(merged[1].bbox[4], rest[4])>>

\* The lines merged into the running paragraph so far.
MergedIntoCurrent == SubSeq(LinesOf(raw_blocks), cur_line, line_idx - 1)

CurrentTextJoined ==
    cur_line > 0 =>
        current.text =
            JoinSpace([k \in 1..Len(MergedIntoCurrent) |-> MergedIntoCurrent[k].text])

\* C20: the running paragraph, which is appended to the result as it is when
\* the next one starts or the loop ends, has the union of the bboxes of the
\* lines merged into it as bbox and their texts joined by single spaces, in
\* merge order, as text.
C20_BboxIsUnionTextIsJoined ==
    /\ cur_line > 0 => current.bbox = UnionBbox(MergedIntoCurrent)
    /\ CurrentTextJoined

(***************************************************************************)
(* _detect_column_split (html_renderer.py).  A split is the midpoint of    *)
(* two integers, so it is kept as Half(n), the number n / 2.               *)
(***************************************************************************)
Half(n) == [t |-> "half", n |-> n]

RECURSIVE Insert(_, _)
\* x put after the entries that are <= x: sorted() is stable.
Insert(x, sorted) ==
    IF Len(sorted) = 0 THEN <<x>>
    ELSE IF x < Head(sorted) THEN <<x>> \o sorted
    ELSE <<Head(sorted)>> \o Insert(x, Tail(sorted))

RECURSIVE SortedInts(_)
\* sorted(xs)
SortedInts(xs) ==
    IF Len(xs) = 0 THEN <<>>
    ELSE Insert(xs[Len(xs)], SortedInts(SubSeq(xs, 1, Len(xs) - 1)))

InMiddleZoneNoLowerEdge(split, W) == 5 * split.n < 8 * W

\* page_width * 0.25 < split < page_width * 0.80
InMiddleZone(split, W) == W < 2 * split.n /\ 5 * split.n < 8 * W

\* sum(1 for b in text_blocks if b["bbox"][0] < split)
LeftCount(blocks, split) ==
    Cardinality({k \in 1..Len(blocks) : 2 * blocks[k].bbox[1] < split.n})

\* sum(1 for b in text_blocks if b["bbox"][0] >= split)
RightCount(blocks, split) ==
    Cardinality({k \in 1..Len(blocks) : 2 * blocks[k].bbox[1] >= split.n})

BothSidesHaveOne(blocks, split) ==
    LeftCount(blocks, split) >= 1 /\ RightCount(blocks, split) >= 1

\* left >= 2 and right >= 2
BothSidesHaveTwo(blocks, split) ==
    LeftCount(blocks, split) >= 2 /\ RightCount(blocks, split) >= 2

\* best_gap > page_width * 0.10
MeaningfulGap(gap, W) == 10 * gap > W

MinColumnBlocks == 4

RECURSIVE ScanPairs(_, _, _, _, _)
\* The loop "for i in range(1, len(x0_vals))" from pair k on; best is
\* [gap |-> best_gap, split |-> best_split].
ScanPairs(x0_vals, blocks, W, k, best) ==
    IF k >= Len(x0_vals) THEN best
    ELSE LET gap == x0_vals[k + 1] - x0_vals[k]
             split == Half(x0_vals[k + 1] + x0_vals[k])
         IN  IF /\ gap > best.gap
                /\ InMiddleZone(split, W)
                /\ BothSidesHaveTwo(blocks, split)
             THEN ScanPairs(x0_vals, blocks, W, k + 1,
                            [gap |-> gap, split |-> split])
             ELSE ScanPairs(x0_vals, blocks, W, k + 1, best)

_detect_column_split(blocks, W) ==
    IF Len(blocks) < MinColumnBlocks THEN PyNone
    ELSE LET x0_vals == SortedInts([k \in 1..Len(blocks) |-> blocks[k].bbox[1]])
             best == ScanPairs(x0_vals, blocks, W, 1,
                               [gap |-> 0, split |-> PyNone])
         IN  IF MeaningfulGap(best.gap, W) THEN best.split ELSE PyNone

MaxTextBlocks == 5

X0Samples == {50, 52, 300, 305, 400}

WidthSamples == {600, 1200}

TextBlockAt(x0) == [type |-> "text", bbox |-> <<x0, 0, x0 + 100, 10>>]

ColInit ==
    /\ text_blocks = <<>>
    /\ page_width \in WidthSamples
    /\ split_out = Pending
    /\ pcCol = "input"

ColIdle ==
    /\ text_blocks = <<>>
    /\ page_width = 0
    /\ split_out = Pending
    /\ pcCol = "idle"

\* The caller's list of text blocks grows by one block.
AddTextBlock ==
    /\ pcCol = "input"
    /\ Len(text_blocks) < MaxTextBlocks
    /\ \E x0 \in X0Samples : text_blocks' = Append(text_blocks, TextBlockAt(x0))
    /\ UNCHANGED <<page_width, split_out, pcCol>>
    /\ UNCHANGED <<colorVars, mergeVars, overlapVars, structVars, layoutVars, escapeVars, sectionsVars, sessionVars, requestVars, styleVars, threadsVars>>

\* The call _detect_column_split(text_blocks, page_width).
DetectColumnSplit ==
    /\ pcCol = "input"
    /\ split_out' = _detect_column_split(text_blocks, page_width)
    /\ pcCol' = "done"
    /\ UNCHANGED <<text_blocks, page_width>>
    /\ UNCHANGED <<colorVars, mergeVars, overlapVars, structVars, layoutVars, escapeVars, sectionsVars, sessionVars, requestVars, styleVars, threadsVars>>

ColNext == AddTextBlock \/ DetectColumnSplit

\* The x0 values of the blocks, and the pairs of neighbouring distinct values.
X0Values == {text_blocks[k].bbox[1] : k \in 1..Len(text_blocks)}

Neighbours ==
    {p \in X0Values \X X0Values :
        p[1] < p[2] /\ ~\E c \in X0Values : p[1] < c /\ c < p[2]}

StrictlyLeft(x2) == {k \in 1..Len(text_blocks) : 2 * text_blocks[k].bbox[1] < x2}

AtOrRight(x2) == {k \in 1..Len(text_blocks) : 2 * text_blocks[k].bbox[1] >= x2}

\* 0.25 W < x < 0.80 W for the midpoint x = x2 / 2
InZone(x2) == page_width < 2 * x2 /\ 5 * x2 < 8 * page_width

\* C2: a reported split x comes from at least 4 blocks, lies in
\* (0.25W, 0.80W), is the midpoint of two neighbouring x0 values more than
\* 0.10W apart, and has at least 2 blocks strictly left and at least 2 at
\* or right of it; fewer than 4 blocks always give "no split".
C2_SplitIsValid ==
    pcCol = "done" =>
        /\ split_out # PyNone =>
              /\ Len(text_blocks) >= 4
              /\ InZone(split_out.n)
              /\ \E p \in Neighbours :
                    /\ p[1] + p[2] = split_out.n
                    /\ 10 * (p[2] - p[1]) > page_width
              /\ Cardinality(StrictlyLeft(split_out.n)) >= 2
              /\ Cardinality(AtOrRight(split_out.n)) >= 2
        /\ Len(text_blocks) < 4 => split_out = PyNone

C2_Witness ==
    /\ pcCol = "done"
    /\ split_out = Half(352)
    /\ page_width = 600
    /\ Len(text_blocks) = 4

\* The pair of largest gap among a set of pairs, the lowest one on a tie.
Widest(pairs) ==
    CHOOSE p \in pairs :
        \A q \in pairs :
            \/ q[2] - q[1] < p[2] - p[1]
            \/ (q[2] - q[1] = p[2] - p[1] /\ p[1] <= q[1])

EligiblePairs == {p \in Neighbours : InZone(p[1] + p[2])}

SidesOk(p) ==
    /\ Cardinality(StrictlyLeft(p[1] + p[2])) >= 2
    /\ Cardinality(AtOrRight(p[1] + p[2])) >= 2

IntSamples ==
    {-1, 0, 1, 255, 256, 65280, 11259375, 16711680,
     Mask24, Mask24 + 1, Mask24 + 2}

\* -1/FloatDenom .. 1 + 1/FloatDenom
FloatSamples == {PyFloat(k) : k \in -1..(FloatDenom + 1)}

ComponentSamples ==
    {PyFloat(0), PyFloat(2), PyFloat(FloatDenom), PyFloat(2 * FloatDenom),
     PyFloat(-1), PyInt(1), PyNone, PyInf}

CanonicalSamples ==
    {PyStr(<<"#", "0", "0", "0", "0", "0", "0">>),
     PyStr(<<"#", "f", "f", "0", "0", "0", "0">>),
     PyStr(<<"#", "0", "0", "f", "f", "7", "f">>),
     PyStr(<<"#", "a", "b", "c", "d", "e", "f">>)}

ColorInputs ==
    {PyNone, PyInf, PyNan}
    \cup {PyInt(n) : n \in IntSamples}
    \cup FloatSamples
    \cup {PySeq(<<a, b, c>>) : a \in ComponentSamples, b \in ComponentSamples,
                               c \in ComponentSamples}
    \cup {PySeq(<<a>>) : a \in ComponentSamples}
    \cup {PySeq(<<a, a, a, b>>) : a \in {PyFloat(0), PyFloat(FloatDenom)},
                                  b \in ComponentSamples}
    \cup CanonicalSamples
    \cup {PyStr(<<"2", "5", "5">>), PyStr(<<"r", "e", "d">>)}

ColorInit ==
    /\ color \in ColorInputs
    /\ color_to_hex_out = Pending
    /\ hex_color_out = Pending
    /\ pcColor = "call"

ColorIdle ==
    /\ color = PyNone
    /\ color_to_hex_out = Pending
    /\ hex_color_out = Pending
    /\ pcColor = "idle"

\* Both normalizers are applied to the value.
Normalize ==
    /\ pcColor = "call"
    /\ color_to_hex_out' = _color_to_hex(color)
    /\ hex_color_out' = _hex_color(color)
    /\ pcColor' = "returned"
    /\ UNCHANGED color
    /\ UNCHANGED <<mergeVars, colVars, overlapVars, structVars, layoutVars, escapeVars, sectionsVars, sessionVars, requestVars, styleVars, threadsVars>>

\* The string a normalizer returned is normalized again.
Renormalize ==
    /\ pcColor = "returned"
    /\ \E out \in {color_to_hex_out, hex_color_out} :
          /\ out.t = "str"
          /\ out # color
          /\ color' = out
    /\ color_to_hex_out' = Pending
    /\ hex_color_out' = Pending
    /\ pcColor' = "call"
    /\ UNCHANGED <<mergeVars, colVars, overlapVars, structVars, layoutVars, escapeVars, sectionsVars, sessionVars, requestVars, styleVars, threadsVars>>

ColorNext == Normalize \/ Renormalize

HexCharSet == {HexChars[i] : i \in 1..16}

\* A canonical '#rrggbb' string.
Canonical(x) ==
    /\ x.t = "str"
    /\ Len(x.s) = 7
    /\ x.s[1] = "#"
    /\ \A i \in 2..7 : x.s[i] \in HexCharSet

\* C8 as stated: the normalizers return a canonical '#rrggbb' string
\* unchanged (idempotence on canonical strings).
C8_Original ==
    (pcColor = "returned" /\ Canonical(color))
        => (color_to_hex_out = color /\ hex_color_out = color)

\* C8, amended: on a canonical '#rrggbb' string _color_to_hex returns null
\* and _hex_color returns '#000000', so the string comes back unchanged
\* only from _hex_color and only when it is '#000000'.
C8_CanonicalStringNotRecognised ==
    (pcColor = "returned" /\ Canonical(color))
        => /\ color_to_hex_out = PyNone
           /\ hex_color_out = Black
           /\ (hex_color_out = color <=> color = Black)

C8_Witness ==
    /\ pcColor = "returned"
    /\ Canonical(color)
    /\ color # Black
    /\ hex_color_out = Black

UnitNumber(c) ==
    \/ c.t = "int" /\ c.v \in {0, 1}
    \/ c.t = "float" /\ 0 <= c.q /\ c.q <= FloatDenom

UnitTriple(c) ==
    /\ c.t = "seq"
    /\ Len(c.items) >= 3
    /\ \A i \in 1..3 : UnitNumber(c.items[i])

\* What _color_to_hex has a branch for.
Recognised(c) ==
    \/ c.t \in {"int", "float", "inf", "nan"}
    \/ c.t = "seq" /\ Len(c.items) >= 3

Expand == 4

OverlapsOrTouches(a, b) ==
    ~ \/ a[3] < b[1] - Expand
      \/ b[3] + Expand < a[1]
      \/ a[4] < b[2] - Expand
      \/ b[4] + Expand < a[2]

_overlaps(a, b) ==
    ~ \/ a[3] <= b[1] - Expand
      \/ b[3] + Expand <= a[1]
      \/ a[4] <= b[2] - Expand
      \/ b[4] + Expand <= a[2]

XSamples == {40, 96, 100, 146, 150, 154, 155, 200}

YSamples == {80, 96, 100, 120, 124, 130}

\* Bboxes with x0 <= x1 and y0 <= y1.
BlockBoxSamples ==
    {bb \in XSamples \X YSamples \X XSamples \X YSamples :
        bb[1] <= bb[3] /\ bb[2] <= bb[4]}

LinkBoxSamples ==
    {<<100, 100, 150, 120>>, <<100, 100, 100, 100>>, <<96, 96, 154, 124>>}

OverlapInit ==
    /\ block_bbox \in BlockBoxSamples
    /\ link_bbox \in LinkBoxSamples
    /\ overlaps_out = Pending
    /\ pcOverlap = "call"

OverlapIdle ==
    /\ block_bbox = <<0, 0, 0, 0>>
    /\ link_bbox = <<0, 0, 0, 0>>
    /\ overlaps_out = Pending
    /\ pcOverlap = "idle"

\* The call _overlaps(block_bbox, link_bbox) with the default expand.
CallOverlaps ==
    /\ pcOverlap = "call"
    /\ overlaps_out' = _overlaps(block_bbox, link_bbox)
    /\ pcOverlap' = "returned"
    /\ UNCHANGED <<block_bbox, link_bbox>>
    /\ UNCHANGED <<colorVars, mergeVars, colVars, structVars, layoutVars, escapeVars, sectionsVars, sessionVars, requestVars, styleVars, threadsVars>>

OverlapNext == CallOverlaps

\* The points <<px, py>> of the integer grid that lie in the block's bbox
\* (edges included) and strictly inside the link's bbox grown by 4 on every
\* side are CommonX \X CommonY.
CommonX ==
    {px \in 0..250 :
        /\ block_bbox[1] <= px /\ px <= block_bbox[3]
        /\ link_bbox[1] - 4 < px /\ px < link_bbox[3] + 4}

CommonY ==
    {py \in 0..250 :
        /\ block_bbox[2] <= py /\ py <= block_bbox[4]
        /\ link_bbox[2] - 4 < py /\ py < link_bbox[4] + 4}

\* C4: _overlaps(block, link) is true exactly when the block's bbox meets
\* the inside of the link's bbox grown by 4 pt on every side (touching the
\* grown edge does not count): the link [100,100,150,120] attaches to a
\* text bbox starting at x0 = 146, not to one starting at x0 = 155, and not
\* to one exactly 4 pt away (x0 = 154).
C4_OverlapIsStrictExpandedIntersection ==
    pcOverlap = "returned" =>
        /\ overlaps_out <=> (CommonX # {} /\ CommonY # {})
        /\ (link_bbox = <<100, 100, 150, 120>>
               /\ block_bbox[2] = 100 /\ block_bbox[3] = 200 /\ block_bbox[4] = 120)
             => /\ block_bbox[1] = 146 => overlaps_out
                /\ block_bbox[1] = 155 => ~overlaps_out
                /\ block_bbox[1] = 154 => ~overlaps_out

\* The text bbox exactly 4 pt to the right of the link was tried.
C4_Witness ==
    /\ pcOverlap = "returned"
    /\ link_bbox = <<100, 100, 150, 120>>
    /\ block_bbox = <<154, 100, 200, 120>>
    /\ overlaps_out = FALSE

(***************************************************************************)
(* extract_structured (structured_extractor.py): the element lists of a    *)
(* page and their assembly.  Coordinates are integers, so round(x, 2) is   *)
(* x.  An element id f"r_{page_idx}_{draw_idx:04d}" is kept as the record  *)
(* of its parts.                                                           *)
(***************************************************************************)
ElementId(prefix, page, idx) == [prefix |-> prefix, page |-> page, idx |-> idx]

RectWidth(r) == r[3] - r[1]
RectHeight(r) == r[4] - r[2]

\* "not x" for a value _color_to_hex returned: None or a non-empty string.
Falsy(x) == x = PyNone

RECURSIVE Ascending(_)
\* The numbers of a finite set in increasing order.
Ascending(S) ==
    IF S = {} THEN <<>>
    ELSE LET least == CHOOSE x \in S : \A y \in S : x <= y
         IN  <<least>> \o Ascending(S \ {least})

\* The drawing passes the three "continue" tests of _extract_shape_elements.
ShapeKept(drawing) ==
    /\ drawing.rect # PyNone
    /\ ~(RectWidth(drawing.rect.box) < 2 \/ RectHeight(drawing.rect.box) < 2)
    /\ ~(Falsy(_color_to_hex(drawing.fill)) /\ Falsy(_color_to_hex(drawing.color)))

ShapeElement(drawing, page, draw_idx) ==
    [id           |-> ElementId("r", page, draw_idx),
     type         |-> "rect",
     bbox         |-> drawing.rect.box,
     fill_color   |-> _color_to_hex(drawing.fill),
     stroke_color |-> _color_to_hex(drawing.color),
     stroke_width |-> drawing.width,
     order        |-> draw_idx]

\* "for draw_idx, drawing in enumerate(page.get_drawings())": draw_idx
\* counts from 0 over all drawings, kept or not.
_extract_shape_elements(drawings, page) ==
    LET kept == Ascending({draw_idx \in 0..(Len(drawings) - 1) :
                              ShapeKept(drawings[draw_idx + 1])})
    IN  [j \in 1..Len(kept) |-> ShapeElement(drawings[kept[j] + 1], page, kept[j])]

\* The image file name, and the extension "jpeg" written "jpg".
ImageExt(ext) == IF ext = "jpeg" THEN "jpg" ELSE ext

SizeAlwaysRead(img, phash_available) == TRUE

\* "if _PHASH_AVAILABLE: try: pil_img = Image.open(...); width_px, height_px
\* = pil_img.size": the pixel size has been read.
SizeRead(img, phash_available) == phash_available /\ img.decodable

\* "phash = str(imagehash.phash(pil_img))" has been reached and returned.
Hashed(img, phash_available) == SizeRead(img, phash_available) /\ img.hashable

RECURSIVE ImageElementsFrom(_, _, _, _)
\* The loop of _extract_image_elements from image number img_idx on.  An
\* image whose bytes cannot be read raises inside the try and is skipped.
ImageElementsFrom(images, page, img_idx, phash_available) ==
    IF img_idx >= Len(images) THEN <<>>
    ELSE LET img == images[img_idx + 1]
             rest == ImageElementsFrom(images, page, img_idx + 1, phash_available)
             rect == img.rects[1]
             width_px == IF SizeRead(img, phash_available) THEN img.size[1] ELSE 0
         IN  IF Len(img.rects) = 0 THEN rest
             ELSE IF ~img.readable THEN rest
             ELSE <<[id        |-> ElementId("i", page, img_idx),
                     type      |-> "image",
                     src       |-> [page |-> page + 1, img |-> img_idx + 1,
                                    xref |-> img.xref, ext |-> ImageExt(img.ext)],
                     bbox      |-> rect,
                     width_px  |-> IF width_px = 0 THEN RectWidth(rect)
                                   ELSE width_px,
                     height_px |-> IF width_px = 0 THEN RectHeight(rect)
                                   ELSE img.size[2],
                     phash     |-> IF Hashed(img, phash_available)
                                   THEN PyStr(img.hash) ELSE PyNone,
                     order     |-> img_idx]>> \o rest

\* page.get_image_rects(xref) stands before the try: when it raises for
\* one image, the exception leaves _extract_image_elements.
ImagePlacementRaises(images) == \E k \in 1..Len(images) : ~images[k].placed

_extract_image_elements(images, page, phash_available) ==
    ImageElementsFrom(images, page, 0, phash_available)

TextOrderBase == 100

RECURSIVE DominantOfAll(_)
\* max(spans, key=size): the first span of the largest size, empty or not.
DominantOfAll(spans) ==
    IF Len(spans) = 1 THEN spans[1]
    ELSE LET rest == DominantOfAll(Tail(spans))
         IN  IF spans[1].size >= rest.size THEN spans[1] ELSE rest

\* " ".join(s.text.strip() for s in spans).strip()
LineText(spans) ==
    Strip(JoinSpace([k \in 1..Len(spans) |-> Strip(spans[k].text)]))

\* _color_to_hex(color_int) or "#000000"
TextColor(c) ==
    LET h == _color_to_hex(c) IN IF Falsy(h) THEN Black ELSE h

RECURSIVE TextElementsFrom(_, _, _)
\* The loop of _extract_text_elements over the lines of the page's text
\* blocks with order_counter as it stands.
TextElementsFrom(raw_lines, page, order_counter) ==
    IF Len(raw_lines) = 0 THEN <<>>
    ELSE LET line == raw_lines[1]
             dominant == DominantOfAll(line.spans)
         IN  IF Len(line.spans) = 0 \/ LineText(line.spans) = <<>>
             THEN TextElementsFrom(Tail(raw_lines), page, order_counter)
             ELSE <<[id       |-> ElementId("t", page, order_counter),
                     type     |-> "text",
                     text     |-> LineText(line.spans),
                     raw_text |-> LineText(line.spans),
                     bbox     |-> line.bbox,
                     style    |-> [font_family |-> dominant.font,
                                   font_size   |-> dominant.size,
                                   color       |-> TextColor(dominant.color)],
                     order    |-> order_counter]>>
                  \o TextElementsFrom(Tail(raw_lines), page, order_counter + 1)

_extract_text_elements(raw_lines, page) ==
    TextElementsFrom(raw_lines, page, TextOrderBase)

RECURSIVE InsertBeforeEqual(_, _)
InsertBeforeEqual(e, sorted) ==
    IF Len(sorted) = 0 THEN <<e>>
    ELSE IF e.order <= Head(sorted).order THEN <<e>> \o sorted
    ELSE <<Head(sorted)>> \o InsertBeforeEqual(e, Tail(sorted))

RECURSIVE InsertByOrder(_, _)
\* e put after the entries whose order is <= e.order.
InsertByOrder(e, sorted) ==
    IF Len(sorted) = 0 THEN <<e>>
    ELSE IF e.order < Head(sorted).order THEN <<e>> \o sorted
    ELSE <<Head(sorted)>> \o InsertByOrder(e, Tail(sorted))

RECURSIVE SortByOrder(_)
\* list.sort(key=lambda e: e["order"]): a stable sort.
SortByOrder(elems) ==
    IF Len(elems) = 0 THEN <<>>
    ELSE InsertByOrder(elems[Len(elems)],
                       SortByOrder(SubSeq(elems, 1, Len(elems) - 1)))

MaxPages == 2

\* Drawings that _extract_shape_elements skips: no rect, thinner than 2 pt,
\* neither fill nor stroke.
SkippedDrawing(k) ==
    CASE k % 3 = 0 -> [rect |-> PyNone, fill |-> PyNone, color |-> PyInt(0),
                       width |-> 1]
      [] k % 3 = 1 -> [rect |-> [box |-> <<0, 0, 200, 1>>],
                       fill |-> PyNone, color |-> PySeq(<<PyInt(0), PyInt(0), PyInt(0)>>),
                       width |-> 1]
      [] OTHER     -> [rect |-> [box |-> <<0, 0, 200, 100>>],
                       fill |-> PyNone, color |-> PyNone, width |-> 0]

VisibleDrawing(k) ==
    [rect |-> [box |-> <<10 * k, 0, 10 * k + 100, 50>>],
     fill |-> PySeq(<<PyInt(1), PyInt(0), PyInt(0)>>), color |-> PyNone,
     width |-> 0]

\* skipped drawings first, then visible ones
Drawings(skipped, visible) ==
    [k \in 1..(skipped + visible) |->
        IF k <= skipped THEN SkippedDrawing(k) ELSE VisibleDrawing(k)]

DrawingsSamples ==
    {Drawings(0, 0), Drawings(0, 2), Drawings(1, 1),
     Drawings(TextOrderBase, 1), Drawings(TextOrderBase + 1, 1)}

\* An image of the page: placed says that page.get_image_rects(xref)
\* returns (rects is what it returns), readable that doc.extract_image and
\* the write of the file succeed, decodable that PIL opens it and reads its
\* size, hashable that imagehash.phash then returns.
ImageInfo(xref, rects, readable, decodable) ==
    [xref |-> xref, placed |-> TRUE, rects |-> rects, readable |-> readable,
     ext |-> "jpeg", decodable |-> decodable, hashable |-> decodable,
     size |-> <<640, 480>>, hash |-> <<"c", "3">>]


OkImage(xref) == ImageInfo(xref, <<<<20, 20, 120, 80>>>>, TRUE, TRUE)

\* An image whose size PIL reads and whose hashing raises.
UnhashableImage(xref) == [OkImage(xref) EXCEPT !.hashable = FALSE]

\* An image for which page.get_image_rects(xref) raises.
UnplacedImage(xref) == [OkImage(xref) EXCEPT !.placed = FALSE]

ImagesSamples ==
    {<<>>,
     <<OkImage(7)>>,
     <<OkImage(7), OkImage(9)>>,
     <<ImageInfo(5, <<>>, TRUE, TRUE), OkImage(7)>>,
     <<ImageInfo(5, <<<<0, 0, 30, 30>>>>, FALSE, TRUE),
       ImageInfo(7, <<<<20, 20, 120, 80>>>>, TRUE, FALSE)>>,
     <<OkImage(7), UnplacedImage(9)>>,
     <<UnhashableImage(7)>>}

TextSpan(text, size) ==
    [text |-> text, size |-> size, font |-> "Helvetica", flags |-> 0,
     color |-> PyInt(255)]

RawTextLine(y0, spans) == [bbox |-> <<10, y0, 110, y0 + 10>>, spans |-> spans]

TextLinesSamples ==
    {<<>>,
     <<RawTextLine(0, <<TextSpan(<<"a">>, 12)>>)>>,
     <<RawTextLine(0, <<TextSpan(<<" ">>, 12)>>),
       RawTextLine(15, <<TextSpan(<<"b", " ">>, 10), TextSpan(<<"c">>, 12)>>),
       RawTextLine(30, <<>>),
       RawTextLine(45, <<TextSpan(<<"d">>, 12)>>)>>}

StructInit ==
    /\ PHASH_AVAILABLE \in BOOLEAN
    /\ page_count \in 0..MaxPages
    /\ doc_open = TRUE
    /\ page_idx = 0
    /\ page_images = <<>>
    /\ shape_elements = <<>>
    /\ image_elements = <<>>
    /\ text_elements = <<>>
    /\ result_pages = <<>>
    /\ pcStruct = "loop"

StructIdle ==
    /\ PHASH_AVAILABLE = FALSE
    /\ page_count = 0
    /\ doc_open = FALSE
    /\ page_idx = 0
    /\ page_images = <<>>
    /\ shape_elements = <<>>
    /\ image_elements = <<>>
    /\ text_elements = <<>>
    /\ result_pages = <<>>
    /\ pcStruct = "idle"

\* One iteration of "for page_idx in range(len(doc))": the page's drawings,
\* images and text lines are whatever the document holds.  An exception of
\* _extract_image_elements is caught nowhere: it leaves extract_structured
\* before doc.close().
ProcessPage ==
    /\ pcStruct = "loop"
    /\ page_idx < page_count
    /\ \E drawings \in DrawingsSamples, images \in ImagesSamples,
          raw_lines \in TextLinesSamples :
          /\ page_images' = images
          /\ IF ImagePlacementRaises(images)
             THEN /\ pcStruct' = "raised"
                  /\ UNCHANGED <<shape_elements, image_elements, text_elements,
                                 result_pages, page_idx>>
             ELSE /\ shape_elements' = _extract_shape_elements(drawings, page_idx)
                  /\ image_elements' =
                         _extract_image_elements(images, page_idx, PHASH_AVAILABLE)
                  /\ text_elements' = _extract_text_elements(raw_lines, page_idx)
                  /\ result_pages' =
                         Append(result_pages,
                                [page_index |-> page_idx,
                                 elements   |-> SortByOrder(shape_elements'
                                     \o image_elements' \o text_elements')])
                  /\ page_idx' = page_idx + 1
                  /\ pcStruct' = pcStruct
    /\ UNCHANGED <<PHASH_AVAILABLE, page_count, doc_open>>
    /\ UNCHANGED <<colorVars, mergeVars, colVars, overlapVars, layoutVars, escapeVars, sectionsVars, sessionVars, requestVars, styleVars, threadsVars>>

\* "doc.close(); return result"
ReturnStructured ==
    /\ pcStruct = "loop"
    /\ page_idx = page_count
    /\ doc_open' = FALSE
    /\ pcStruct' = "returned"
    /\ UNCHANGED <<PHASH_AVAILABLE, page_count, page_idx, page_images,
                   shape_elements, image_elements, text_elements, result_pages>>
    /\ UNCHANGED <<colorVars, mergeVars, colVars, overlapVars, layoutVars, escapeVars, sectionsVars, sessionVars, requestVars, styleVars, threadsVars>>

StructNext == ProcessPage \/ ReturnStructured

\* The elements of the page processed last, and what they were sorted from.
LastElements == result_pages[Len(result_pages)].elements

Concatenated == shape_elements \o image_elements \o text_elements

WithOrder(elems, o) == SelectSeq(elems, LAMBDA e : e.order = o)

\* C6: on every structured page every rect and every image element comes
\* before every text element, however many shapes, images and lines.
C6_BackgroundBeforeText ==
    \A p \in 1..Len(result_pages) :
        LET elems == result_pages[p].elements
        IN  \A a, b \in 1..Len(elems) :
                (elems[a].type = "text" /\ elems[b].type \in {"rect", "image"})
                    => b < a

\* C7: the elements of a page are in non-decreasing order of the key
\* "order", and elements of equal key stand as in the concatenation shapes,
\* images, text (each in detection order): the list is the one stable
\* sorting of the concatenation.
C7_StableSortedByOrder ==
    result_pages # <<>> =>
        /\ Len(LastElements) = Len(Concatenated)
        /\ \A a, b \in 1..Len(LastElements) :
              a < b => LastElements[a].order <= LastElements[b].order
        /\ \A k \in 1..Len(Concatenated) :
              WithOrder(LastElements, Concatenated[k].order)
                  = WithOrder(Concatenated, Concatenated[k].order)

\* A shape and an image share the key 0, and a shape shares the key 100
\* with the first text line.
C7_Witness ==
    /\ pcStruct = "returned"
    /\ Len(result_pages) = 2
    /\ \E a \in 1..(Len(result_pages[1].elements) - 1) :
          /\ result_pages[1].elements[a].type = "rect"
          /\ result_pages[1].elements[a + 1].type = "image"
          /\ result_pages[1].elements[a + 1].order = result_pages[1].elements[a].order
    /\ \E a \in 1..(Len(LastElements) - 1) :
          /\ LastElements[a].type = "rect"
          /\ LastElements[a].order = 100
          /\ LastElements[a + 1].type = "text"
          /\ LastElements[a + 1].order = 100

(***************************************************************************)
(* The renderers (html_renderer.py).  HTML is kept as the sequence of the  *)
(* nodes it is made of, one sequence per page div; a node made from a      *)
(* block carries that block in the field "of", which is not part of the    *)
(* HTML and only says where the node came from.                            *)
(***************************************************************************)
RECURSIVE Replace(_, _, _)
\* s.replace(ch, rep) for a single character ch
Replace(s, ch, rep) ==
    IF Len(s) = 0 THEN <<>>
    ELSE (IF Head(s) = ch THEN rep ELSE <<Head(s)>>) \o Replace(Tail(s), ch, rep)

EscapeAmpLast(s) ==
    Replace(Replace(Replace(Replace(Replace(s,
        "<", <<"&", "l", "t", ";">>),
        ">", <<"&", "g", "t", ";">>),
        "\"", <<"&", "q", "u", "o", "t", ";">>),
        "'", <<"&", "#", "0", "3", "9", ";">>),
        "&", <<"&", "a", "m", "p", ";">>)

_escape(s) ==
    Replace(Replace(Replace(Replace(Replace(s,
        "&", <<"&", "a", "m", "p", ";">>),
        "<", <<"&", "l", "t", ";">>),
        ">", <<"&", "g", "t", ";">>),
        "\"", <<"&", "q", "u", "o", "t", ";">>),
        "'", <<"&", "#", "0", "3", "9", ";">>)

\* max(0.0, (x1 - x0) * (y1 - y0))
_area(bbox) == Max(0, (bbox[3] - bbox[1]) * (bbox[4] - bbox[2]))

RECURSIVE FindLastLink(_, _)
FindLastLink(bbox, links) ==
    IF Len(links) = 0 THEN PyNone
    ELSE IF _overlaps(bbox, links[Len(links)].bbox) THEN links[Len(links)].url
    ELSE FindLastLink(bbox, SubSeq(links, 1, Len(links) - 1))

RECURSIVE _find_link(_, _)
\* The url of the first link whose bbox overlaps, or None.
_find_link(bbox, links) ==
    IF Len(links) = 0 THEN PyNone
    ELSE IF _overlaps(bbox, Head(links).bbox) THEN Head(links).url
    ELSE _find_link(bbox, Tail(links))

\* "if href": a non-empty string
Truthy(x) == x.t = "str" /\ x.s # <<>>

RECURSIVE InsertByTop(_, _)
\* b put after the entries whose top is <= b's top.
InsertByTop(b, sorted) ==
    IF Len(sorted) = 0 THEN <<b>>
    ELSE IF b.bbox[2] < Head(sorted).bbox[2] THEN <<b>> \o sorted
    ELSE <<Head(sorted)>> \o InsertByTop(b, Tail(sorted))

RECURSIVE SortByTop(_)
\* sorted(blocks, key=lambda b: b["bbox"][1]): a stable sort.
SortByTop(blocks) ==
    IF Len(blocks) = 0 THEN <<>>
    ELSE InsertByTop(blocks[Len(blocks)],
                     SortByTop(SubSeq(blocks, 1, Len(blocks) - 1)))

OfType(blocks, type) == SelectSeq(blocks, LAMBDA b : b.type = type)

SectionGap == 25

RECURSIVE SplitFromAnyGap(_, _, _, _)
SplitFromAnyGap(rest, sections, cur, last_bottom) ==
    IF Len(rest) = 0 THEN (IF Len(cur) > 0 THEN Append(sections, cur) ELSE sections)
    ELSE LET b == Head(rest)
             bottom == Max(last_bottom, b.bbox[4])
         IN  IF b.bbox[2] - last_bottom > 0 /\ Len(cur) > 0
             THEN SplitFromAnyGap(Tail(rest), Append(sections, cur), <<b>>, bottom)
             ELSE SplitFromAnyGap(Tail(rest), sections, Append(cur, b), bottom)

RECURSIVE SplitFromAtGap(_, _, _, _)
SplitFromAtGap(rest, sections, cur, last_bottom) ==
    IF Len(rest) = 0 THEN (IF Len(cur) > 0 THEN Append(sections, cur) ELSE sections)
    ELSE LET b == Head(rest)
             bottom == Max(last_bottom, b.bbox[4])
         IN  IF b.bbox[2] - last_bottom >= SectionGap /\ Len(cur) > 0
             THEN SplitFromAtGap(Tail(rest), Append(sections, cur), <<b>>, bottom)
             ELSE SplitFromAtGap(Tail(rest), sections, Append(cur, b), bottom)

RECURSIVE SplitFrom(_, _, _, _)
\* The loop of _split_sections over the blocks after the first:
\* sections closed so far, the open section, last_bottom.
SplitFrom(rest, sections, cur, last_bottom) ==
    IF Len(rest) = 0 THEN (IF Len(cur) > 0 THEN Append(sections, cur) ELSE sections)
    ELSE LET b == Head(rest)
             bottom == Max(last_bottom, b.bbox[4])
         IN  IF b.bbox[2] - last_bottom > SectionGap /\ Len(cur) > 0
             THEN SplitFrom(Tail(rest), Append(sections, cur), <<b>>, bottom)
             ELSE SplitFrom(Tail(rest), sections, Append(cur, b), bottom)

SplitSectionsUnsorted(blocks) ==
    IF Len(blocks) = 0 THEN <<>>
    ELSE SplitFrom(Tail(blocks), <<>>, <<blocks[1]>>, blocks[1].bbox[4])

_split_sections(blocks) ==
    IF Len(blocks) = 0 THEN <<>>
    ELSE LET sorted_b == SortByTop(blocks)
         IN  SplitFrom(Tail(sorted_b), <<>>, <<sorted_b[1]>>, sorted_b[1].bbox[4])

BoldFlag == 16
ItalicFlagExact == 1

\* flags & bit, for a bit that is a power of two
HasFlag(flags, bit) == (flags \div bit) % 2 = 1

TagBoldAtH3(b) ==
    LET bold == HasFlag(b.flags, BoldFlag)
    IN  IF b.size >= 22 THEN "h1"
        ELSE IF b.size >= 17 \/ (b.size >= 13 /\ bold) THEN "h2"
        ELSE IF b.size >= 13 THEN "h3"
        ELSE IF b.size <= 9 THEN "legal"
        ELSE "p"

_tag(b) ==
    LET bold == HasFlag(b.flags, BoldFlag)
    IN  IF b.size >= 22 THEN "h1"
        ELSE IF b.size >= 17 \/ (b.size >= 14 /\ bold) THEN "h2"
        ELSE IF b.size >= 13 THEN "h3"
        ELSE IF b.size <= 9 THEN "legal"
        ELSE "p"

HexBlackShort == PyStr(<<"#", "0", "0", "0">>)

_text_html(b, links) ==
    LET href == _find_link(b.bbox, links)
    IN  [node  |-> _tag(b),
         text  |-> _escape(b.text),
         style |-> IF Truthy(b.color) /\ b.color \notin {Black, HexBlackShort}
                   THEN b.color ELSE PyNone,
         href  |-> IF Truthy(href) THEN PyStr(_escape(href.s)) ELSE PyNone,
         of    |-> b]

RECURSIVE LastLargest(_)
LastLargest(images) ==
    IF Len(images) = 1 THEN 1
    ELSE LET rest == LastLargest(Tail(images)) + 1
         IN  IF _area(images[1].bbox) > _area(images[rest].bbox) THEN 1 ELSE rest

RECURSIVE FirstLargest(_)
\* max(images, key=area) as an index: the first image of the largest area.
FirstLargest(images) ==
    IF Len(images) = 1 THEN 1
    ELSE LET rest == FirstLargest(Tail(images)) + 1
         IN  IF _area(images[1].bbox) >= _area(images[rest].bbox) THEN 1 ELSE rest

HeroMinArea == 8000

\* The index in images of the hero, or 0 when there is none.
HeroIndex(images) ==
    IF Len(images) = 0 THEN 0
    ELSE LET biggest == FirstLargest(images)
         IN  IF _area(images[biggest].bbox) > HeroMinArea THEN biggest ELSE 0

ImgSrc(base_url, b) == _escape(base_url \o b.src)

HeroAlsoInline(images, hero) == images

\* "for img in images: if img is hero: continue": the images but the one
\* at the hero's place.
InlineImages(images, hero) ==
    LET placed == SelectSeq([k \in 1..Len(images) |-> [k |-> k, b |-> images[k]]],
                            LAMBDA e : e.k # hero)
    IN  [k \in 1..Len(placed) |-> placed[k].b]

Marker(name) == [node |-> name]

_section_html(blocks, W, base_url) ==
    LET images == OfType(blocks, "image")
        texts == SortByTop(OfType(blocks, "text"))
        links == OfType(blocks, "link")
        hero == HeroIndex(images)
        split_x == IF Len(texts) > 0 THEN _detect_column_split(texts, W)
                   ELSE PyNone
        left_col == SortByTop(SelectSeq(texts,
                        LAMBDA b : 2 * b.bbox[1] < split_x.n))
        right_col == SortByTop(SelectSeq(texts,
                        LAMBDA b : 2 * b.bbox[1] >= split_x.n))
        TextNodes(ts) == [k \in 1..Len(ts) |-> _text_html(ts[k], links)]
        inline == InlineImages(images, hero)
    IN  <<Marker("section")>>
        \o (IF hero # 0
            THEN <<[node |-> "hero", src |-> ImgSrc(base_url, images[hero]),
                    of |-> images[hero]]>>
            ELSE <<>>)
        \o (IF split_x # PyNone
            THEN <<Marker("cols"), Marker("col")>> \o TextNodes(left_col)
                 \o <<Marker("/col"), Marker("col")>> \o TextNodes(right_col)
                 \o <<Marker("/col"), Marker("/cols")>>
            ELSE TextNodes(texts))
        \o [k \in 1..Len(inline) |->
               [node |-> "img-block", src |-> ImgSrc(base_url, inline[k]),
                of |-> inline[k]]]
        \o <<Marker("/section")>>

RECURSIVE Concat(_)
Concat(seqs) == IF Len(seqs) = 0 THEN <<>> ELSE Head(seqs) \o Concat(Tail(seqs))

\* The page divs of render_html.
render_html(layout, base_url) ==
    [p \in 1..Len(layout.pages) |->
        LET page == layout.pages[p]
            sections == _split_sections(page.blocks)
        IN  Concat([k \in 1..Len(sections) |->
                       _section_html(sections[k], page.width, base_url)])]

\* One node of render_html_exact.
ExactNode(b, blocks, base_url) ==
    LET x0 == b.bbox[1]
        y0 == b.bbox[2]
        bw == Max(1, b.bbox[3] - b.bbox[1])
        bh == Max(1, b.bbox[4] - b.bbox[2])
        href == _find_link(b.bbox, OfType(blocks, "link"))
    IN  CASE b.type = "text" ->
               [node |-> "div.t", left |-> x0, top |-> y0, width |-> bw,
                min_height |-> bh, font_size |-> b.size, color |-> b.color,
                font_weight |-> IF HasFlag(b.flags, BoldFlag) THEN "bold"
                                ELSE "normal",
                font_style |-> IF HasFlag(b.flags, ItalicFlagExact) THEN "italic"
                               ELSE "normal",
                text |-> _escape(b.text),
                href |-> IF Truthy(href) THEN PyStr(_escape(href.s)) ELSE PyNone,
                of |-> b]
          [] b.type = "image" ->
               [node |-> "img.i", left |-> x0, top |-> y0, width |-> bw,
                height |-> bh, src |-> ImgSrc(base_url, b), of |-> b]
          [] OTHER ->
               [node |-> "a.hot", left |-> x0, top |-> y0, width |-> bw,
                height |-> bh, href |-> _escape(b.url.s),
                title |-> _escape(b.url.s), of |-> b]

LayersTextFirst == <<"text", "image", "link">>

\* for layer in ("image", "text", "link")
Layers == <<"image", "text", "link">>

\* The page divs of render_html_exact.
render_html_exact(layout, base_url) ==
    [p \in 1..Len(layout.pages) |->
        LET blocks == layout.pages[p].blocks
        IN  Concat([l \in 1..Len(Layers) |->
                LET of_layer == OfType(blocks, Layers[l])
                IN  [k \in 1..Len(of_layer) |->
                        ExactNode(of_layer[k], blocks, base_url)]])]

(***************************************************************************)
(* extract_layout (layout_extractor.py) and the two renderings the         *)
(* endpoint makes of its result (endpoints.py).                            *)
(***************************************************************************)
RECURSIVE DecDigits(_)
\* The decimal digits of n >= 0
DecDigits(n) ==
    IF n < 10 THEN <<HexChar(n)>>
    ELSE DecDigits(n \div 10) \o <<HexChar(n % 10)>>

ImgNameOfXref(page_no, xref) ==
    <<"i", "m", "g">> \o DecDigits(xref) \o <<".", "p", "n", "g">>

\* f"page{pno + 1:03d}_img{xref}.png"
ImgName(page_no, xref) ==
    <<"p", "a", "g", "e">> \o ZeroPad(DecDigits(page_no + 1), 3)
        \o <<"_", "i", "m", "g">> \o DecDigits(xref) \o <<".", "p", "n", "g">>

MaxLayoutPages == 2

\* At most this many blocks in one document.
MaxLayoutBlocks == 4

\* page.rect of every page
PageRect == [width |-> 600, height |-> 800]

\* A paragraph as _merge_spans_to_blocks returns it.
Paragraph(bbox, text, size, c, flags) ==
    [type |-> "text", bbox |-> bbox, text |-> text, font |-> "Helvetica",
     size |-> size, color |-> _hex_color(c), flags |-> flags]

ParagraphSamples ==
    {Paragraph(<<50, 0, 150, 10>>, <<"a">>, 12, PyInt(0), 0),
     Paragraph(<<50, 40, 150, 50>>, <<"b", "<", "&">>, 22, PyInt(255), 1),
     Paragraph(<<300, 12, 400, 22>>, <<"c">>, 14, PyInt(0), 16)}

\* An entry of page.get_images(full=True): its xref, where it lies on the
\* page (None when the page does not say), and whether it can be saved.
PageImage(xref, bbox, ok) == [xref |-> xref, bbox |-> bbox, ok |-> ok]

PageImageSamples ==
    {PageImage(7, PySeq(<<0, 0, 100, 100>>), TRUE),
     PageImage(9, PySeq(<<0, 60, 50, 70>>), TRUE),
     PageImage(9, PySeq(<<100, 0, 200, 100>>), TRUE),
     PageImage(11, PySeq(<<0, 0, 100, 80>>), TRUE),
     PageImage(9, PyNone, TRUE),
     PageImage(7, PySeq(<<0, 0, 100, 100>>), FALSE),
     PageImage(0, PySeq(<<0, 0, 10, 10>>), TRUE)}

\* An entry of page.get_links()
PageLink(uri, from) == [uri |-> uri, from |-> from]

PageLinkSamples ==
    {PageLink(PyStr(<<"u", "1">>), PySeq(<<50, 0, 100, 10>>)),
     PageLink(PyStr(<<"u", "&", "2">>), PySeq(<<100, 13, 150, 20>>)),
     PageLink(PyStr(<<"u", "3">>), PySeq(<<50, 36, 150, 39>>)),
     PageLink(PyNone, PySeq(<<50, 0, 100, 10>>)),
     PageLink(PyStr(<<"u", "4">>), PyNone)}

RECURSIVE SeqsUpTo(_, _)
\* The sequences over S of length at most n
SeqsUpTo(S, n) ==
    IF n = 0 THEN {<<>>}
    ELSE LET shorter == SeqsUpTo(S, n - 1)
         IN  shorter \cup {Append(s, x) : s \in shorter, x \in S}

NoResult == [pages |-> <<>>, image_files |-> <<>>]

LayoutInit ==
    /\ layout_page_count \in 0..MaxLayoutPages
    /\ layout_doc_open = TRUE
    /\ pno = 0
    /\ blocks_out = <<>>
    /\ seen_xrefs = {}
    /\ result = NoResult
    /\ assets_base_url \in {<<>>, <<"h", "/">>}
    /\ html = Pending
    /\ html_exact = Pending
    /\ pcLayout = "text"

LayoutIdle ==
    /\ layout_page_count = 0
    /\ layout_doc_open = FALSE
    /\ pno = 0
    /\ blocks_out = <<>>
    /\ seen_xrefs = {}
    /\ result = NoResult
    /\ assets_base_url = <<>>
    /\ html = Pending
    /\ html_exact = Pending
    /\ pcLayout = "idle"

RECURSIVE BlocksIn(_)
BlocksIn(pages) ==
    IF Len(pages) = 0 THEN 0 ELSE Len(Head(pages).blocks) + BlocksIn(Tail(pages))

\* How many more blocks the document may hold.
Room == MaxLayoutBlocks - BlocksIn(result.pages) - Len(blocks_out)

\* The start of an iteration of "for pno in range(doc.page_count)", up to
\* "blocks_out.extend(text_blocks)".
ExtendText ==
    /\ pcLayout = "text"
    /\ pno < layout_page_count
    /\ \E merged \in SeqsUpTo(ParagraphSamples,
                              MaxLayoutBlocks - BlocksIn(result.pages)) :
          blocks_out' = merged
    /\ seen_xrefs' = {}
    /\ pcLayout' = "images"
    /\ UNCHANGED <<layout_page_count, layout_doc_open, pno, result,
                   assets_base_url, html, html_exact>>
    /\ UNCHANGED <<colorVars, mergeVars, colVars, overlapVars, structVars, escapeVars, sectionsVars, sessionVars, requestVars, styleVars, threadsVars>>

\* load_page or get_text raises: "finally: doc.close()" and the exception
\* leaves extract_layout.
RaiseInPage ==
    /\ pcLayout = "text"
    /\ pno < layout_page_count
    /\ layout_doc_open' = FALSE
    /\ pcLayout' = "raised"
    /\ UNCHANGED <<layout_page_count, pno, blocks_out, seen_xrefs, result,
                   assets_base_url, html, html_exact>>
    /\ UNCHANGED <<colorVars, mergeVars, colVars, overlapVars, structVars, escapeVars, sectionsVars, sessionVars, requestVars, styleVars, threadsVars>>

\* One iteration of "for img in page.get_images(full=True)".
ImageStep ==
    /\ pcLayout = "images"
    /\ \E img \in PageImageSamples :
          IF img.xref = 0 \/ img.xref \in seen_xrefs
          THEN UNCHANGED <<seen_xrefs, result, blocks_out>>
          ELSE /\ seen_xrefs' = seen_xrefs \cup {img.xref}
               /\ IF img.ok
                  THEN /\ Room > 0
                       /\ result' = [result EXCEPT !.image_files =
                                        Append(@, ImgName(pno, img.xref))]
                       /\ blocks_out' = Append(blocks_out,
                              [type |-> "image",
                               bbox |-> IF img.bbox # PyNone THEN img.bbox.items
                                        ELSE <<0, 0, PageRect.width, PageRect.height>>,
                               src  |-> ImgName(pno, img.xref)])
                  ELSE UNCHANGED <<result, blocks_out>>
    /\ UNCHANGED <<layout_page_count, layout_doc_open, pno, assets_base_url,
                   html, html_exact, pcLayout>>
    /\ UNCHANGED <<colorVars, mergeVars, colVars, overlapVars, structVars, escapeVars, sectionsVars, sessionVars, requestVars, styleVars, threadsVars>>

\* One iteration of "for link in page.get_links()".
LinkStep ==
    /\ pcLayout \in {"images", "links"}
    /\ \E link \in PageLinkSamples :
          IF Truthy(link.uri) /\ link.from # PyNone
          THEN /\ Room > 0
               /\ blocks_out' = Append(blocks_out,
                      [type |-> "link", bbox |-> link.from.items,
                       url |-> link.uri])
          ELSE UNCHANGED blocks_out
    /\ pcLayout' = "links"
    /\ UNCHANGED <<layout_page_count, layout_doc_open, pno, seen_xrefs, result,
                   assets_base_url, html, html_exact>>
    /\ UNCHANGED <<colorVars, mergeVars, colVars, overlapVars, structVars, escapeVars, sectionsVars, sessionVars, requestVars, styleVars, threadsVars>>

FinishPagePrepended ==
    /\ pcLayout \in {"images", "links"}
    /\ blocks_out' = SortByTop(blocks_out)
    /\ result' = [result EXCEPT !.pages =
                     <<[page |-> pno + 1, width |-> PageRect.width,
                        height |-> PageRect.height,
                        blocks |-> blocks_out']>> \o @]
    /\ pno' = pno + 1
    /\ pcLayout' = "text"
    /\ UNCHANGED <<layout_page_count, layout_doc_open, seen_xrefs,
                   assets_base_url, html, html_exact>>
    /\ UNCHANGED <<colorVars, mergeVars, colVars, overlapVars, structVars, escapeVars, sectionsVars, sessionVars, requestVars, styleVars, threadsVars>>

\* The end of the iteration: the sort and result["pages"].append(...).
FinishPage ==
    /\ pcLayout \in {"images", "links"}
    /\ blocks_out' = SortByTop(blocks_out)
    /\ result' = [result EXCEPT !.pages =
                     Append(@, [page |-> pno + 1, width |-> PageRect.width,
                                height |-> PageRect.height,
                                blocks |-> blocks_out'])]
    /\ pno' = pno + 1
    /\ pcLayout' = "text"
    /\ UNCHANGED <<layout_page_count, layout_doc_open, seen_xrefs,
                   assets_base_url, html, html_exact>>
    /\ UNCHANGED <<colorVars, mergeVars, colVars, overlapVars, structVars, escapeVars, sectionsVars, sessionVars, requestVars, styleVars, threadsVars>>

\* The loop is over: "finally: doc.close()" and "return result".
ReturnLayout ==
    /\ pcLayout = "text"
    /\ pno = layout_page_count
    /\ layout_doc_open' = FALSE
    /\ pcLayout' = "returned"
    /\ UNCHANGED <<layout_page_count, pno, blocks_out, seen_xrefs, result,
                   assets_base_url, html, html_exact>>
    /\ UNCHANGED <<colorVars, mergeVars, colVars, overlapVars, structVars, escapeVars, sectionsVars, sessionVars, requestVars, styleVars, threadsVars>>

\* html = render_html(layout, assets_base_url=assets_base_url)
RenderHtml ==
    /\ pcLayout = "returned"
    /\ html' = render_html(result, assets_base_url)
    /\ pcLayout' = "rendered"
    /\ UNCHANGED <<layout_page_count, layout_doc_open, pno, blocks_out,
                   seen_xrefs, result, assets_base_url, html_exact>>
    /\ UNCHANGED <<colorVars, mergeVars, colVars, overlapVars, structVars, escapeVars, sectionsVars, sessionVars, requestVars, styleVars, threadsVars>>

\* html_exact = render_html_exact(layout, assets_base_url=assets_base_url)
RenderHtmlExact ==
    /\ pcLayout = "rendered"
    /\ html_exact' = render_html_exact(result, assets_base_url)
    /\ pcLayout' = "done"
    /\ UNCHANGED <<layout_page_count, layout_doc_open, pno, blocks_out,
                   seen_xrefs, result, assets_base_url, html>>
    /\ UNCHANGED <<colorVars, mergeVars, colVars, overlapVars, structVars, escapeVars, sectionsVars, sessionVars, requestVars, styleVars, threadsVars>>

LayoutNext ==
    \/ ExtendText
    \/ RaiseInPage
    \/ ImageStep
    \/ LinkStep
    \/ FinishPage
    \/ ReturnLayout
    \/ RenderHtml
    \/ RenderHtmlExact

\* The nodes of one page that were made from text blocks.
IsTextNode(n) == n.node \in {"h1", "h2", "h3", "legal", "p", "div.t"}

\* The link bbox grown by 4 points on every side and the block's bbox have
\* a part in common.
ExpandedOverlap(a, b) ==
    /\ b[1] - 4 < a[3]
    /\ a[1] < b[3] + 4
    /\ b[2] - 4 < a[4]
    /\ a[2] < b[4] + 4

\* The places in the page's block list of the links that overlap the block.
OverlappingLinks(b, blocks) ==
    {k \in 1..Len(blocks) :
        blocks[k].type = "link" /\ ExpandedOverlap(b.bbox, blocks[k].bbox)}

\* The anchor the block should get: the escaped url of the overlapping link
\* that stands first in the page, or none.
FirstOverlapping(b, blocks) ==
    LET hits == OverlappingLinks(b, blocks)
    IN  IF hits = {} THEN PyNone
        ELSE PyStr(_escape(blocks[CHOOSE k \in hits : \A j \in hits : k <= j].url.s))

AnchorsAreFirstOverlapping(pages_html) ==
    \A p \in 1..Len(pages_html) :
        \A k \in 1..Len(pages_html[p]) :
            IsTextNode(pages_html[p][k]) =>
                pages_html[p][k].href
                    = FirstOverlapping(pages_html[p][k].of, result.pages[p].blocks)

\* C5: in both renderings, the anchor of every text node is the first link
\* of the page (in the order of the page's blocks) whose bbox, grown by 4
\* points, overlaps the text block; there is one anchor at most, and none
\* when no link overlaps.
C5_AnchorIsFirstOverlappingLink ==
    /\ pcLayout \in {"rendered", "done"} => AnchorsAreFirstOverlapping(html)
    /\ pcLayout = "done" => AnchorsAreFirstOverlapping(html_exact)

\* Both renderings hold a text block that two links of different urls
\* overlap, anchored to the first, and a text block on a page with links
\* that no link overlaps, left without anchor.
C5_Witness ==
    /\ pcLayout = "done"
    /\ \E p \in 1..Len(html) :
          LET blocks == result.pages[p].blocks
          IN  /\ \E a \in 1..Len(html[p]), e \in 1..Len(html_exact[p]) :
                    /\ IsTextNode(html[p][a])
                    /\ IsTextNode(html_exact[p][e])
                    /\ html[p][a].of = html_exact[p][e].of
                    /\ Cardinality({blocks[k].url :
                           k \in OverlappingLinks(html[p][a].of, blocks)}) >= 2
                    /\ html[p][a].href # PyNone
                    /\ html[p][a].href = html_exact[p][e].href
              /\ \E a \in 1..Len(html[p]), e \in 1..Len(html_exact[p]) :
                    /\ IsTextNode(html[p][a])
                    /\ IsTextNode(html_exact[p][e])
                    /\ html[p][a].of = html_exact[p][e].of
                    /\ html[p][a].href = PyNone
                    /\ html_exact[p][e].href = PyNone

\* The layer of a node of the pixel-perfect rendering.
LayerRank(n) ==
    CASE n.node = "img.i" -> 1
      [] n.node = "div.t" -> 2
      [] n.node = "a.hot" -> 3

\* The blocks the nodes of one kind were made from, in node order.
SourcesOf(nodes, kind) ==
    LET of_kind == SelectSeq(nodes, LAMBDA n : n.node = kind)
    IN  [k \in 1..Len(of_kind) |-> of_kind[k].of]

\* C10: in every page of the pixel-perfect rendering the image nodes come
\* first, then the text nodes, then the link hot-zones, whatever the order of
\* the page's blocks; the nodes of a layer stand in the order of their blocks,
\* and every block is rendered exactly once.
C10_LayersInOrderEachBlockOnce ==
    pcLayout = "done" =>
        \A p \in 1..Len(html_exact) :
            LET nodes == html_exact[p]
                blocks == result.pages[p].blocks
            IN  /\ \A a, b \in 1..Len(nodes) :
                      a < b => LayerRank(nodes[a]) <= LayerRank(nodes[b])
                /\ SourcesOf(nodes, "img.i") = OfType(blocks, "image")
                /\ SourcesOf(nodes, "div.t") = OfType(blocks, "text")
                /\ SourcesOf(nodes, "a.hot") = OfType(blocks, "link")
                /\ Len(nodes) = Len(blocks)

\* A page whose blocks start with a link, followed by two different text
\* blocks and then an image, has been rendered.
C10_Witness ==
    /\ pcLayout = "done"
    /\ \E p \in 1..Len(html_exact) :
          LET blocks == result.pages[p].blocks
          IN  /\ Len(blocks) = 4
              /\ blocks[1].type = "link"
              /\ blocks[2].type = "text"
              /\ blocks[3].type = "text"
              /\ blocks[2] # blocks[3]
              /\ blocks[4].type = "image"
              /\ html_exact[p][1].node = "img.i"
              /\ html_exact[p][4].node = "a.hot"

RECURSIVE SectionsOfNodes(_, _, _)
\* The nodes of a page of the semantic rendering, section by section.
SectionsOfNodes(nodes, closed, open) ==
    IF Len(nodes) = 0 THEN closed
    ELSE IF Head(nodes).node = "section"
         THEN SectionsOfNodes(Tail(nodes), closed, <<>>)
    ELSE IF Head(nodes).node = "/section"
         THEN SectionsOfNodes(Tail(nodes), Append(closed, open), <<>>)
    ELSE SectionsOfNodes(Tail(nodes), closed, Append(open, Head(nodes)))

\* The place among the images of the first one of the largest area.
FirstOfLargestArea(images) ==
    CHOOSE j \in 1..Len(images) :
        /\ \A i \in 1..Len(images) : _area(images[i].bbox) <= _area(images[j].bbox)
        /\ \A i \in 1..(j - 1) : _area(images[i].bbox) < _area(images[j].bbox)

\* C22: every section of the semantic rendering has one hero image at
\* most; it has one exactly when the largest area among the images of the
\* section is greater than 8000, and the hero is then the first image of
\* that area; rendering leaves the layout as it was.
C22_HeroIsFirstLargestOver8000 ==
    /\ [](pcLayout \in {"rendered", "done"} =>
          \A p \in 1..Len(html) :
              LET secs == _split_sections(result.pages[p].blocks)
                  rendered == SectionsOfNodes(html[p], <<>>, <<>>)
              IN  /\ Len(rendered) = Len(secs)
                  /\ \A k \in 1..Len(secs) :
                        LET images == OfType(secs[k], "image")
                            heroes == SourcesOf(rendered[k], "hero")
                        IN  /\ Len(heroes) <= 1
                            /\ Len(heroes) = 1 <=>
                                  \E i \in 1..Len(images) :
                                      _area(images[i].bbox) > HeroMinArea
                            /\ Len(heroes) = 1 =>
                                  heroes[1] = images[FirstOfLargestArea(images)])
    /\ [][pcLayout' = "rendered" => result' = result]_vars

\* A section with two images of the same area above 8000, the first of
\* them the hero and the other inline, and a section whose largest image
\* has area 8000 exactly and no hero, have been rendered.
C22_Witness ==
    /\ pcLayout = "rendered"
    /\ \E p \in 1..Len(html) :
          LET secs == _split_sections(result.pages[p].blocks)
              rendered == SectionsOfNodes(html[p], <<>>, <<>>)
          IN  \E k \in 1..Len(secs) :
                 LET images == OfType(secs[k], "image")
                 IN  /\ Len(images) = 2
                     /\ images[1] # images[2]
                     /\ _area(images[1].bbox) = _area(images[2].bbox)
                     /\ SourcesOf(rendered[k], "hero") = <<images[1]>>
                     /\ SourcesOf(rendered[k], "img-block") = <<images[2]>>
    /\ \E p \in 1..Len(html) :
          LET secs == _split_sections(result.pages[p].blocks)
              rendered == SectionsOfNodes(html[p], <<>>, <<>>)
          IN  \E k \in 1..Len(secs) :
                 LET images == OfType(secs[k], "image")
                 IN  /\ Len(images) = 1
                     /\ _area(images[1].bbox) = HeroMinArea
                     /\ SourcesOf(rendered[k], "hero") = <<>>

\* The blocks the nodes among the given kinds were made from, in node order.
SourcesAmong(nodes, kinds) ==
    LET of_kinds == SelectSeq(nodes, LAMBDA n : n.node \in kinds)
    IN  [k \in 1..Len(of_kinds) |-> of_kinds[k].of]

\* The two sequences hold the same blocks, each as many times.
SameBlocks(s, t) ==
    /\ Len(s) = Len(t)
    /\ \A k \in 1..Len(t) :
          Cardinality({i \in 1..Len(s) : s[i] = t[k]})
              = Cardinality({i \in 1..Len(t) : t[i] = t[k]})

\* C25: in every section of the semantic rendering, the text nodes are made
\* from the text blocks of the section, each once, with or without
\* columns, and the hero and the inline images from its image blocks, each
\* once.
C25_EveryTextAndImageOnce ==
    pcLayout \in {"rendered", "done"} =>
        \A p \in 1..Len(html) :
            LET secs == _split_sections(result.pages[p].blocks)
                rendered == SectionsOfNodes(html[p], <<>>, <<>>)
            IN  /\ Len(rendered) = Len(secs)
                /\ \A k \in 1..Len(secs) :
                      /\ SameBlocks(
                             SourcesAmong(rendered[k], {"h1", "h2", "h3", "legal", "p"}),
                             OfType(secs[k], "text"))
                      /\ SameBlocks(
                             SourcesAmong(rendered[k], {"hero", "img-block"}),
                             OfType(secs[k], "image"))

\* A section was rendered in two columns, a text node in each.
C25_Witness ==
    /\ pcLayout = "rendered"
    /\ \E p \in 1..Len(html) :
          \E i, j \in 1..Len(html[p]) :
             /\ i < j
             /\ html[p][i] = Marker("col")
             /\ \A n \in (i + 1)..(j - 1) : IsTextNode(html[p][n])
             /\ j > i + 1
             /\ html[p][j] = Marker("/col")
             /\ html[p][j + 1] = Marker("col")
             /\ IsTextNode(html[p][j + 2])

\* The block is one of the blocks of the section.
InSection(b, sec) == \E k \in 1..Len(sec) : sec[k] = b

\* C26: on the pages extract_layout returns, the semantic rendering and the
\* pixel-exact rendering give every text block the same anchor, or both
\* none; and every link that overlaps a text block, grown by 4 points, is
\* in the section of that block.
C26_SameAnchorInBothRenderings ==
    pcLayout = "done" =>
        \A p \in 1..Len(html) :
            LET blocks == result.pages[p].blocks
                secs == _split_sections(blocks)
            IN  /\ \A a \in 1..Len(html[p]), e \in 1..Len(html_exact[p]) :
                      (IsTextNode(html[p][a]) /\ IsTextNode(html_exact[p][e])
                          /\ html[p][a].of = html_exact[p][e].of)
                        => html[p][a].href = html_exact[p][e].href
                /\ \A k \in 1..Len(secs) :
                      \A t \in 1..Len(secs[k]) :
                         secs[k][t].type = "text" =>
                            \A l \in OverlappingLinks(secs[k][t], blocks) :
                               InSection(blocks[l], secs[k])

\* A page of two sections, each with a link, was rendered both ways, and a
\* text block of it has the anchor of the link of its section in both.
C26_Witness ==
    /\ pcLayout = "done"
    /\ \E p \in 1..Len(html) :
          LET secs == _split_sections(result.pages[p].blocks)
          IN  /\ Len(secs) = 2
              /\ OfType(secs[1], "link") # <<>>
              /\ OfType(secs[2], "link") # <<>>
              /\ OfType(secs[1], "link") # OfType(secs[2], "link")
              /\ \E a \in 1..Len(html[p]), e \in 1..Len(html_exact[p]) :
                    /\ IsTextNode(html[p][a])
                    /\ IsTextNode(html_exact[p][e])
                    /\ html[p][a].of = html_exact[p][e].of
                    /\ InSection(html[p][a].of, secs[2])
                    /\ html[p][a].href # PyNone
                    /\ html_exact[p][e].href = html[p][a].href

\* The src of the image blocks of the pages, page after page.
ImageSources(pages) ==
    Concat([p \in 1..Len(pages) |->
               LET images == OfType(pages[p].blocks, "image")
               IN  [k \in 1..Len(images) |-> images[k].src]])

\* C29: in the layout extract_layout returns, no file name stands twice in
\* image_files, every name of image_files is the src of one image block and
\* every image block has its src in image_files, the images that could not
\* be saved having neither.
C29_ImageFilesMatchImageBlocks ==
    pcLayout \in {"returned", "rendered", "done"} =>
        LET files == result.image_files
            srcs == ImageSources(result.pages)
        IN  /\ \A i, j \in 1..Len(files) : files[i] = files[j] => i = j
            /\ Len(srcs) = Len(files)
            /\ \A i \in 1..Len(files) :
                  Cardinality({k \in 1..Len(srcs) : srcs[k] = files[i]}) = 1
            /\ \A k \in 1..Len(srcs) : \E i \in 1..Len(files) : files[i] = srcs[k]

\* Two pages each hold the image of the same xref, and on the last page
\* one more image was met that could not be saved.
C29_Witness ==
    /\ pcLayout = "returned"
    /\ Len(result.pages) = 2
    /\ Len(OfType(result.pages[1].blocks, "image")) = 1
    /\ Len(OfType(result.pages[2].blocks, "image")) = 1
    /\ result.image_files = <<ImgName(0, 9), ImgName(1, 9)>>
    /\ seen_xrefs = {7, 9}

(***************************************************************************)
(* _escape and the places where the renderers embed literal content        *)
(* (html_renderer.py): one literal is escaped, and a page whose text       *)
(* block, link url, image src and asset base url are that literal is       *)
(* rendered by both renderers.                                             *)
(***************************************************************************)
MaxLiteralLen == 3

LiteralChars == {"&", "<", ">", "\"", "'", "a", ";"}

LiteralSamples == SeqsUpTo(LiteralChars, MaxLiteralLen)

\* A layout of one page whose every literal is s.
LayoutOfLiteral(s) ==
    [pages |-> <<[page |-> 1, width |-> PageRect.width,
                  height |-> PageRect.height,
                  blocks |-> <<Paragraph(<<50, 0, 150, 10>>, s, 12, PyInt(0), 0),
                               [type |-> "image", bbox |-> <<0, 0, 100, 100>>,
                                src |-> s],
                               [type |-> "link", bbox |-> <<50, 0, 100, 10>>,
                                url |-> PyStr(s)]>>]>>,
     image_files |-> <<s>>]

EscapeInit ==
    /\ literal \in LiteralSamples
    /\ escaped = Pending
    /\ literal_html = Pending
    /\ literal_html_exact = Pending
    /\ pcEscape = "call"

EscapeIdle ==
    /\ literal = <<>>
    /\ escaped = Pending
    /\ literal_html = Pending
    /\ literal_html_exact = Pending
    /\ pcEscape = "idle"

\* The call _escape(literal).
CallEscape ==
    /\ pcEscape = "call"
    /\ escaped' = _escape(literal)
    /\ pcEscape' = "escaped"
    /\ UNCHANGED <<literal, literal_html, literal_html_exact>>
    /\ UNCHANGED <<colorVars, mergeVars, colVars, overlapVars, structVars, layoutVars, sectionsVars, sessionVars, requestVars, styleVars, threadsVars>>

\* render_html of the page made of the literal.
EmbedSemantic ==
    /\ pcEscape = "escaped"
    /\ literal_html' = render_html(LayoutOfLiteral(literal), literal)
    /\ pcEscape' = "semantic"
    /\ UNCHANGED <<literal, escaped, literal_html_exact>>
    /\ UNCHANGED <<colorVars, mergeVars, colVars, overlapVars, structVars, layoutVars, sectionsVars, sessionVars, requestVars, styleVars, threadsVars>>

\* render_html_exact of the page made of the literal.
EmbedExact ==
    /\ pcEscape = "semantic"
    /\ literal_html_exact' = render_html_exact(LayoutOfLiteral(literal), literal)
    /\ pcEscape' = "done"
    /\ UNCHANGED <<literal, escaped, literal_html>>
    /\ UNCHANGED <<colorVars, mergeVars, colVars, overlapVars, structVars, layoutVars, sectionsVars, sessionVars, requestVars, styleVars, threadsVars>>

EscapeNext == CallEscape \/ EmbedSemantic \/ EmbedExact

Entities ==
    {<<"&", "a", "m", "p", ";">>, <<"&", "l", "t", ";">>, <<"&", "g", "t", ";">>,
     <<"&", "q", "u", "o", "t", ";">>, <<"&", "#", "0", "3", "9", ";">>}

\* s holds no raw <, >, " or ', and every & of s begins an entity.
NoRawMarkup(s) ==
    \A i \in 1..Len(s) :
        /\ s[i] \notin {"<", ">", "\"", "'"}
        /\ s[i] = "&" =>
              \E e \in Entities :
                  /\ i + Len(e) - 1 <= Len(s)
                  /\ SubSeq(s, i, i + Len(e) - 1) = e

\* The entity of one character, or the character itself.
EntityOf(ch) ==
    CASE ch = "&"  -> <<"&", "a", "m", "p", ";">>
      [] ch = "<"  -> <<"&", "l", "t", ";">>
      [] ch = ">"  -> <<"&", "g", "t", ";">>
      [] ch = "\"" -> <<"&", "q", "u", "o", "t", ";">>
      [] ch = "'"  -> <<"&", "#", "0", "3", "9", ";">>
      [] OTHER     -> <<ch>>

\* Every character of s replaced once, the entities left as they are.
EscapedOnce(s) == Concat([i \in 1..Len(s) |-> EntityOf(s[i])])

\* The literal fields of a node.
LiteralFields(n) ==
    CASE n.node \in {"h1", "h2", "h3", "legal", "p", "div.t"} ->
             {n.text} \cup (IF n.href = PyNone THEN {} ELSE {n.href.s})
      [] n.node \in {"hero", "img-block", "img.i"} -> {n.src}
      [] n.node = "a.hot" -> {n.href, n.title}
      [] OTHER -> {}

AllLiteralsEscaped(pages_html) ==
    \A p \in 1..Len(pages_html) :
        \A k \in 1..Len(pages_html[p]) :
            \A f \in LiteralFields(pages_html[p][k]) :
                /\ NoRawMarkup(f)
                /\ f \in {EscapedOnce(literal), EscapedOnce(literal \o literal)}

\* C11: the output of _escape holds no raw <, >, " or ', every & in it
\* begins one of the five entities, and no entity is escaped twice (every
\* character is replaced once); the text, the link urls and the image src
\* that both renderers embed are such outputs.
C11_EscapedEverywhereOnce ==
    /\ pcEscape # "call" =>
          /\ NoRawMarkup(escaped)
          /\ escaped = EscapedOnce(literal)
    /\ pcEscape \in {"semantic", "done"} => AllLiteralsEscaped(literal_html)
    /\ pcEscape = "done" => AllLiteralsEscaped(literal_html_exact)

\* A literal with an ampersand, a "<" and a quote has been escaped and
\* rendered: the text carries an anchor and both renderings show an image.
C11_Witness ==
    /\ pcEscape = "done"
    /\ \E i, j, k \in 1..Len(literal) :
          literal[i] = "&" /\ literal[j] = "<" /\ literal[k] = "\""
    /\ \E a \in 1..Len(literal_html[1]) :
          /\ IsTextNode(literal_html[1][a])
          /\ literal_html[1][a].href = PyStr(escaped)
          /\ literal_html[1][a].text = escaped
    /\ \E a \in 1..Len(literal_html[1]) : literal_html[1][a].node = "hero"
    /\ \E a \in 1..Len(literal_html_exact[1]) :
          /\ literal_html_exact[1][a].node = "a.hot"
          /\ literal_html_exact[1][a].href = escaped

C12_WitnessStructured ==
    /\ pcStruct = "returned"
    /\ page_count = 2
    /\ Len(result_pages) = 2
    /\ result_pages[1].elements # <<>>
    /\ Len(result_pages[2].elements) > Len(result_pages[1].elements)

\* The image can be turned into an element: its placement is read, it is
\* placed on the page, and its bytes are read and saved.
Extractable(img) == img.placed /\ Len(img.rects) > 0 /\ img.readable

\* The indices (from 0) of the page's images that can be turned into elements.
ExtractableIndices(images) ==
    Ascending({k - 1 : k \in {j \in 1..Len(images) : Extractable(images[j])}})

\* C13: a failure at a step of handling one image (reading its placement
\* rectangle, reading or saving its bytes) never aborts extract_structured:
\* the page is returned with one image element for every other image, and
\* with its shapes and text lines.
C13_ImageFailureIsLocal ==
    /\ pcStruct # "raised"
    /\ (pcStruct \in {"loop", "returned"} /\ result_pages # <<>>) =>
          /\ [k \in 1..Len(image_elements) |-> image_elements[k].id.idx]
                 = ExtractableIndices(page_images)
          /\ Len(LastElements) = Len(Concatenated)

\* The image that the image element e of the page processed last was made
\* from.
ImageOf(e) == page_images[e.id.idx + 1]

DimsFromBbox(e) ==
    /\ e.width_px = RectWidth(e.bbox)
    /\ e.height_px = RectHeight(e.bbox)

ElementForEveryExtractable ==
    [k \in 1..Len(image_elements) |-> image_elements[k].id.idx]
        = ExtractableIndices(page_images)

PageAssembled == pcStruct \in {"loop", "returned"} /\ result_pages # <<>>

\* C14 as stated: an image whose decoding or hashing fails, or that is
\* extracted without the hashing library, is emitted with phash = null and
\* with the dimensions of its bbox.
C14_Original ==
    PageAssembled =>
        /\ ElementForEveryExtractable
        /\ \A k \in 1..Len(image_elements) :
              LET e == image_elements[k]
              IN  (~PHASH_AVAILABLE \/ ~ImageOf(e).decodable \/ ~ImageOf(e).hashable)
                      => (e.phash = PyNone /\ DimsFromBbox(e))

\* C14, amended: such an image is always emitted with phash = null; its
\* dimensions are those of its bbox when the hashing library is missing or
\* the pixel size could not be read, and the pixel size when the size was
\* read and only the hashing failed.
C14_NullHashDimsFromBboxUnlessSizeRead ==
    PageAssembled =>
        /\ ElementForEveryExtractable
        /\ \A k \in 1..Len(image_elements) :
              LET e == image_elements[k]
                  img == ImageOf(e)
              IN  /\ (~PHASH_AVAILABLE \/ ~img.decodable \/ ~img.hashable)
                         => e.phash = PyNone
                  /\ (~PHASH_AVAILABLE \/ ~img.decodable) => DimsFromBbox(e)
                  /\ (PHASH_AVAILABLE /\ img.decodable /\ ~img.hashable)
                         => (e.width_px = img.size[1] /\ e.height_px = img.size[2])

\* A page with an image that could not be decoded and a page with an
\* image that was decoded but not hashed have been assembled, the library
\* being there.
C14_Witness ==
    /\ pcStruct = "returned"
    /\ PHASH_AVAILABLE
    /\ Len(result_pages) = 2
    /\ \E k \in 1..Len(result_pages[1].elements) :
          LET e == result_pages[1].elements[k]
          IN  e.type = "image" /\ e.phash = PyNone /\ DimsFromBbox(e)
    /\ \E k \in 1..Len(image_elements) :
          /\ ~ImageOf(image_elements[k]).hashable
          /\ ImageOf(image_elements[k]).decodable
          /\ image_elements[k].phash = PyNone

\* C28: when extract_layout or extract_structured has been left, by its
\* return or by an exception raised while a page was processed, the
\* document it opened is closed.
C28_DocumentClosedOnEveryExit ==
    /\ pcLayout \in {"returned", "raised", "rendered", "done"} => ~layout_doc_open
    /\ pcStruct \in {"returned", "raised"} => ~doc_open

(***************************************************************************)
(* _split_sections (html_renderer.py) on the blocks of a page in any       *)
(* order.                                                                  *)
(***************************************************************************)
MaxSectionBlocks == 4

SectionBlockSamples ==
    ParagraphSamples
        \cup {Paragraph(<<50, 100, 150, 110>>, <<"d">>, 9, PyInt(0), 0),
              [type |-> "image", bbox |-> <<0, 60, 50, 70>>,
               src |-> ImgName(0, 9)],
              [type |-> "link", bbox |-> <<50, 36, 150, 39>>,
               url |-> PyStr(<<"u", "3">>)],
              Paragraph(<<50, 35, 150, 45>>, <<"e">>, 12, PyInt(0), 0),
              [type |-> "image", bbox |-> <<0, 0, 100, 100>>,
               src |-> ImgName(0, 7)]}

SectionsInit ==
    /\ section_blocks \in SeqsUpTo(SectionBlockSamples, MaxSectionBlocks)
    /\ sections_out = Pending
    /\ pcSections = "call"

SectionsIdle ==
    /\ section_blocks = <<>>
    /\ sections_out = Pending
    /\ pcSections = "idle"

\* sections = _split_sections(page.get("blocks", []))
CallSplitSections ==
    /\ pcSections = "call"
    /\ sections_out' = _split_sections(section_blocks)
    /\ pcSections' = "returned"
    /\ UNCHANGED section_blocks
    /\ UNCHANGED <<colorVars, mergeVars, colVars, overlapVars, structVars, layoutVars, escapeVars, sessionVars, requestVars, styleVars, threadsVars>>

SectionsNext == CallSplitSections

\* How many times x stands in the sequence s.
Count(s, x) == Cardinality({k \in 1..Len(s) : s[k] = x})

\* C15: the sections returned by _split_sections are not empty, and put end
\* to end they hold every input block as many times as the input does (each
\* block is in one section and one only), in ascending order of top.
C15_SectionsPartitionInTopOrder ==
    pcSections = "returned" =>
        LET flat == Concat(sections_out)
        IN  /\ \A k \in 1..Len(sections_out) : Len(sections_out[k]) > 0
            /\ Len(flat) = Len(section_blocks)
            /\ \A k \in 1..Len(section_blocks) :
                  Count(flat, section_blocks[k])
                      = Count(section_blocks, section_blocks[k])
            /\ \A a, b \in 1..Len(flat) :
                  a < b => flat[a].bbox[2] <= flat[b].bbox[2]

\* Four blocks given out of top order came back as two sections, the first
\* of them of more than one block.
C15_Witness ==
    /\ pcSections = "returned"
    /\ Len(section_blocks) = 4
    /\ \E a, b \in 1..4 :
          a < b /\ section_blocks[a].bbox[2] > section_blocks[b].bbox[2]
    /\ Len(sections_out) = 2
    /\ Len(sections_out[1]) > 1

RECURSIVE SectionStarts(_)
\* The positions, in the sections put end to end, of the first block of
\* every section after the first.
SectionStarts(secs) ==
    IF Len(secs) <= 1 THEN {}
    ELSE LET before == SubSeq(secs, 1, Len(secs) - 1)
         IN  SectionStarts(before) \cup {Len(Concat(before)) + 1}

RECURSIVE MaxBottom(_)
MaxBottom(blocks) ==
    IF Len(blocks) = 1 THEN blocks[1].bbox[4]
    ELSE Max(blocks[1].bbox[4], MaxBottom(Tail(blocks)))

\* C21 as stated: a section starts at a block exactly when its top is more
\* than 25 pt below the bottom of the block just before it in top order.
C21_Original ==
    pcSections = "returned" =>
        LET flat == Concat(sections_out)
        IN  \A k \in 2..Len(flat) :
               k \in SectionStarts(sections_out)
                   <=> flat[k].bbox[2] - flat[k - 1].bbox[4] > SectionGap

\* C21: a section starts at a block exactly when its top is more than 25 pt
\* below the lowest bottom of all the blocks before it in top order; at
\* exactly 25 pt no section starts.
C21_SplitWhereGapToLowestBottomExceeds25 ==
    pcSections = "returned" =>
        LET flat == Concat(sections_out)
        IN  \A k \in 2..Len(flat) :
               LET gap == flat[k].bbox[2] - MaxBottom(SubSeq(flat, 1, k - 1))
               IN  /\ k \in SectionStarts(sections_out) <=> gap > SectionGap
                   /\ gap = SectionGap => k \notin SectionStarts(sections_out)

\* One block lies exactly 25 pt below the blocks before it and stayed in
\* their section, another lies further below and started a section.
C21_Witness ==
    /\ pcSections = "returned"
    /\ LET flat == Concat(sections_out)
       IN  /\ \E k \in 2..Len(flat) :
                 /\ flat[k].bbox[2] - MaxBottom(SubSeq(flat, 1, k - 1)) = SectionGap
                 /\ k \notin SectionStarts(sections_out)
           /\ \E k \in 2..Len(flat) :
                 /\ flat[k].bbox[2] - MaxBottom(SubSeq(flat, 1, k - 1)) > SectionGap
                 /\ k \in SectionStarts(sections_out)

(***************************************************************************)
(* Sessions (session_manager.py), the background cleanup task (main.py)    *)
(* and GET /images/{session_id}/{filename} (endpoints.py).  Time is        *)
(* counted in hours.  The registry is a function from the ids of the live  *)
(* sessions to their expires_at; issued keeps, for every id that           *)
(* create_session ever returned, the expires_at it was given.              *)
(***************************************************************************)
\* settings.session_ttl_hours
SessionTtl == 1

MaxTime == 3

MaxSessions == 2

SessionIds == 1..MaxSessions

\* What a client may send as session id and as filename.
MalformedId == 0

RequestIds == SessionIds \cup {MalformedId}

StoredFile == "page001_img7.png"

Filenames == {StoredFile, "page009_img1.png", "../secret.png"}

\* validate_session_id
validate_session_id(id) == id \in SessionIds

\* validate_filename
validate_filename(f) == f \in {StoredFile, "page009_img1.png"}

AllSessionIds(registry, t) == DOMAIN registry

\* SessionManager.get_expired_sessions
get_expired_sessions(registry, t) == {id \in DOMAIN registry : t >= registry[id]}

\* SessionManager.is_session_expired
is_session_expired(registry, id, t) == id \in DOMAIN registry /\ t >= registry[id]

\* The registry without the sessions of gone.
Without(registry, gone) == [id \in DOMAIN registry \ gone |-> registry[id]]

NoResponse == [status |-> 0]

SessionInit ==
    /\ enable_public_urls \in BOOLEAN
    /\ now = 0
    /\ sessions = <<>>
    /\ issued = <<>>
    /\ session_dirs = {}
    /\ cleanup_task_running = enable_public_urls
    /\ pcCleanup = IF enable_public_urls THEN "run" ELSE "none"
    /\ last_response = NoResponse

SessionIdle ==
    /\ enable_public_urls = FALSE
    /\ now = 0
    /\ sessions = <<>>
    /\ issued = <<>>
    /\ session_dirs = {}
    /\ cleanup_task_running = FALSE
    /\ pcCleanup = "idle"
    /\ last_response = NoResponse

\* The clock advances by one hour.
Tick ==
    /\ pcCleanup # "idle"
    /\ now < MaxTime
    /\ now' = now + 1
    /\ UNCHANGED <<enable_public_urls, sessions, issued, session_dirs,
                   cleanup_task_running, pcCleanup, last_response>>
    /\ UNCHANGED <<colorVars, mergeVars, colVars, overlapVars, structVars, layoutVars, escapeVars, sectionsVars, requestVars, styleVars, threadsVars>>

\* SessionManager.create_session: a fresh id, its directory, its entry.
CreateSession ==
    /\ enable_public_urls
    /\ \E id \in SessionIds \ DOMAIN issued :
          /\ sessions' = (id :> (now + SessionTtl)) @@ sessions
          /\ issued' = (id :> (now + SessionTtl)) @@ issued
          /\ session_dirs' = session_dirs \cup {id}
    /\ UNCHANGED <<enable_public_urls, now, cleanup_task_running, pcCleanup,
                   last_response>>
    /\ UNCHANGED <<colorVars, mergeVars, colVars, overlapVars, structVars, layoutVars, escapeVars, sectionsVars, requestVars, styleVars, threadsVars>>

\* An iteration of session_cleanup_task in which cleanup_expired_sessions
\* returns: every expired session has lost its directory and its entry, and
\* the task sleeps for the interval.
CleanupRun ==
    /\ pcCleanup = "run"
    /\ cleanup_task_running
    /\ LET expired_ids == get_expired_sessions(sessions, now)
       IN  /\ session_dirs' = session_dirs \ expired_ids
           /\ sessions' = Without(sessions, expired_ids)
    /\ pcCleanup' = "sleep"
    /\ UNCHANGED <<enable_public_urls, now, issued, cleanup_task_running,
                   last_response>>
    /\ UNCHANGED <<colorVars, mergeVars, colVars, overlapVars, structVars, layoutVars, escapeVars, sectionsVars, requestVars, styleVars, threadsVars>>

\* An iteration that raises after some of the expired sessions were
\* deleted: the error is logged and the task sleeps for one minute.
CleanupRaise ==
    /\ pcCleanup = "run"
    /\ cleanup_task_running
    /\ \E deleted \in SUBSET get_expired_sessions(sessions, now) :
          /\ session_dirs' = session_dirs \ deleted
          /\ sessions' = Without(sessions, deleted)
    /\ pcCleanup' = "retry"
    /\ UNCHANGED <<enable_public_urls, now, issued, cleanup_task_running,
                   last_response>>
    /\ UNCHANGED <<colorVars, mergeVars, colVars, overlapVars, structVars, layoutVars, escapeVars, sectionsVars, requestVars, styleVars, threadsVars>>

\* asyncio.sleep returns and "while cleanup_task_running" is tested.
WakeUp ==
    /\ pcCleanup \in {"sleep", "retry"}
    /\ pcCleanup' = IF cleanup_task_running THEN "run" ELSE "stopped"
    /\ UNCHANGED <<enable_public_urls, now, sessions, issued, session_dirs,
                   cleanup_task_running, last_response>>
    /\ UNCHANGED <<colorVars, mergeVars, colVars, overlapVars, structVars, layoutVars, escapeVars, sectionsVars, requestVars, styleVars, threadsVars>>

\* shutdown_event
Shutdown ==
    /\ cleanup_task_running
    /\ cleanup_task_running' = FALSE
    /\ UNCHANGED <<enable_public_urls, now, sessions, issued, session_dirs,
                   pcCleanup, last_response>>
    /\ UNCHANGED <<colorVars, mergeVars, colVars, overlapVars, structVars, layoutVars, escapeVars, sectionsVars, requestVars, styleVars, threadsVars>>

\* The status get_session_image answers with.
ImageStatus(id, filename) ==
    IF ~enable_public_urls THEN 404
    ELSE IF ~validate_session_id(id) THEN 400
    ELSE IF ~validate_filename(filename) THEN 400
    ELSE IF id \notin DOMAIN sessions THEN 404
    ELSE IF is_session_expired(sessions, id, now) THEN 410
    ELSE IF ~(id \in session_dirs /\ filename = StoredFile) THEN 404
    ELSE 200

\* GET /images/{session_id}/{filename}
GetSessionImage ==
    /\ pcCleanup # "idle"
    /\ \E id \in RequestIds, filename \in Filenames :
          last_response' = [status |-> ImageStatus(id, filename),
                            session_id |-> id, filename |-> filename,
                            at |-> now]
    /\ UNCHANGED <<enable_public_urls, now, sessions, issued, session_dirs,
                   cleanup_task_running, pcCleanup>>
    /\ UNCHANGED <<colorVars, mergeVars, colVars, overlapVars, structVars, layoutVars, escapeVars, sectionsVars, requestVars, styleVars, threadsVars>>

SessionNext ==
    \/ Tick
    \/ CreateSession
    \/ CleanupRun
    \/ CleanupRaise
    \/ WakeUp
    \/ Shutdown
    \/ GetSessionImage

\* C16: a GET for a well-formed id and filename of a session that was
\* created and whose expiry time has passed is answered 410, whatever
\* cleanup ran before.
C16_ExpiredSessionAnswersGone ==
    (/\ last_response # NoResponse
     /\ validate_session_id(last_response.session_id)
     /\ validate_filename(last_response.filename)
     /\ last_response.session_id \in DOMAIN issued
     /\ last_response.at >= issued[last_response.session_id])
        => last_response.status = 410

\* A session is expired: it is registered and its expires_at has passed.
Expired(id) == id \in DOMAIN sessions /\ now >= sessions[id]

Removed(id) == id \notin DOMAIN sessions /\ id \notin session_dirs

C17_WitnessRetry ==
    /\ pcCleanup = "retry"
    /\ cleanup_task_running
    /\ \E id \in SessionIds : Expired(id)
    /\ \E id \in DOMAIN sessions : ~Expired(id)

MaxRequests == 2

Endpoints == {"extract", "extract-from-url"}

File(kind, req) == [kind |-> kind, req |-> req]

\* How saving the upload, or downloading and saving the PDF, may end: 0 is
\* success, the others are the status of the error.
SaveOutcomes(ep) ==
    IF ep = "extract" THEN {0, 413, 500} ELSE {0, 400, 408, 413, 500}

RequestInit ==
    /\ request_public_urls \in BOOLEAN
    /\ request_no = 0
    /\ endpoint = "none"
    /\ disk = {}
    /\ output_dir = FALSE
    /\ zip_path = FALSE
    /\ request_status = 0
    /\ pcRequest = "await"

RequestIdle ==
    /\ request_public_urls = FALSE
    /\ request_no = 0
    /\ endpoint = "none"
    /\ disk = {}
    /\ output_dir = FALSE
    /\ zip_path = FALSE
    /\ request_status = 0
    /\ pcRequest = "idle"

\* The request arrives: an invalid file name or url is answered 400 at
\* once; otherwise mkstemp creates the PDF temp file and the try begins
\* with output_dir = None and zip_path = None.
ReceiveRequest ==
    /\ pcRequest \in {"await", "finished"}
    /\ request_no < MaxRequests
    /\ request_no' = request_no + 1
    /\ \E ep \in Endpoints, valid \in BOOLEAN :
          /\ endpoint' = ep
          /\ IF valid
             THEN /\ disk' = disk \cup {File("pdf_temp", request_no')}
                  /\ request_status' = 0
                  /\ pcRequest' = "try"
             ELSE /\ disk' = disk
                  /\ request_status' = 400
                  /\ pcRequest' = "finished"
    /\ output_dir' = FALSE
    /\ zip_path' = FALSE
    /\ UNCHANGED request_public_urls
    /\ UNCHANGED <<colorVars, mergeVars, colVars, overlapVars, structVars, layoutVars, escapeVars, sectionsVars, sessionVars, styleVars, threadsVars>>

\* The PDF is written to the temp file and its size is checked.
SavePdf ==
    /\ pcRequest = "try"
    /\ \E outcome \in SaveOutcomes(endpoint) :
          /\ request_status' = outcome
          /\ pcRequest' = IF outcome = 0 THEN "saved" ELSE "finally"
    /\ UNCHANGED <<request_public_urls, request_no, endpoint, disk, output_dir,
                   zip_path>>
    /\ UNCHANGED <<colorVars, mergeVars, colVars, overlapVars, structVars, layoutVars, escapeVars, sectionsVars, sessionVars, styleVars, threadsVars>>

\* The session flow: create_session makes the session directory, and the
\* call of extract_images_and_renders with session_id, base_url and
\* enable_urls, which it does not accept, raises TypeError: status 500.
ExtractWithSession ==
    /\ pcRequest = "saved"
    /\ request_public_urls
    /\ disk' = disk \cup {File("session_dir", request_no)}
    /\ request_status' = 500
    /\ pcRequest' = "finally"
    /\ UNCHANGED <<request_public_urls, request_no, endpoint, output_dir, zip_path>>
    /\ UNCHANGED <<colorVars, mergeVars, colVars, overlapVars, structVars, layoutVars, escapeVars, sectionsVars, sessionVars, styleVars, threadsVars>>

\* The original flow: extract_images_and_renders makes the output
\* directory, then opens and walks the document, then writes the ZIP next
\* to the directory; it may raise at the document or at the ZIP.
ExtractPlain ==
    /\ pcRequest = "saved"
    /\ ~request_public_urls
    /\ \E outcome \in {"document raises", "zip raises", "returns"} :
          /\ disk' = disk \cup {File("output_dir", request_no)}
                 \cup (IF outcome = "document raises" THEN {}
                       ELSE {File("zip", request_no)})
          /\ output_dir' = (outcome = "returns")
          /\ zip_path' = (outcome = "returns")
          /\ request_status' = IF outcome = "returns" THEN 0 ELSE 500
          /\ pcRequest' = IF outcome = "returns" THEN "extracted" ELSE "finally"
    /\ UNCHANGED <<request_public_urls, request_no, endpoint>>
    /\ UNCHANGED <<colorVars, mergeVars, colVars, overlapVars, structVars, layoutVars, escapeVars, sectionsVars, sessionVars, styleVars, threadsVars>>

\* The ZIP is read, mkstemp creates the response ZIP and the content is
\* written to it (which may raise); then _cleanup_paths(output_dir,
\* zip_path) and "return FileResponse(..., background=None)".
RespondZip ==
    /\ pcRequest = "extracted"
    /\ \E written \in BOOLEAN :
          IF written
          THEN /\ disk' = (disk \cup {File("response_zip", request_no)})
                              \ {File("output_dir", request_no),
                                 File("zip", request_no)}
               /\ request_status' = 200
          ELSE /\ disk' = disk \cup {File("response_zip", request_no)}
               /\ request_status' = 500
    /\ pcRequest' = "finally"
    /\ UNCHANGED <<request_public_urls, request_no, endpoint, output_dir, zip_path>>
    /\ UNCHANGED <<colorVars, mergeVars, colVars, overlapVars, structVars, layoutVars, escapeVars, sectionsVars, sessionVars, styleVars, threadsVars>>

\* The finally clause; the request is finished and the response goes out.
FinallyCleanup ==
    /\ pcRequest = "finally"
    /\ disk' = disk \ ({File("pdf_temp", request_no)}
                  \cup (IF ~request_public_urls /\ output_dir
                        THEN {File("output_dir", request_no)} ELSE {})
                  \cup (IF zip_path THEN {File("zip", request_no)} ELSE {}))
    /\ pcRequest' = "finished"
    /\ UNCHANGED <<request_public_urls, request_no, endpoint, output_dir,
                   zip_path, request_status>>
    /\ UNCHANGED <<colorVars, mergeVars, colVars, overlapVars, structVars, layoutVars, escapeVars, sectionsVars, sessionVars, styleVars, threadsVars>>

RequestNext ==
    \/ ReceiveRequest
    \/ SavePdf
    \/ ExtractWithSession
    \/ ExtractPlain
    \/ RespondZip
    \/ FinallyCleanup

TemporaryKinds == {"pdf_temp", "zip", "response_zip", "output_dir"}

\* C18: when a request has finished, with success or with an error, no PDF
\* temp file, no ZIP, no response ZIP and (public URLs being disabled) no
\* output directory that a request created is on disk.
C18_NoTemporaryFileRemains ==
    pcRequest = "finished" =>
        \A f \in disk : f.kind \notin TemporaryKinds

(***************************************************************************)
(* The style of a text block: _tag and the font-weight / font-style of     *)
(* render_html_exact (html_renderer.py), and _infer_font_weight and        *)
(* _infer_font_style (structured_extractor.py), on one size, one flags     *)
(* bitmask and one font name.                                              *)
(***************************************************************************)
UpperCase == <<"A", "B", "H", "I", "O">>
LowerCase == <<"a", "b", "h", "i", "o">>

\* str.lower() of one character
LowerChar(ch) ==
    IF \E k \in 1..Len(UpperCase) : UpperCase[k] = ch
    THEN LowerCase[CHOOSE k \in 1..Len(UpperCase) : UpperCase[k] = ch]
    ELSE ch

\* str.lower()
Lower(s) == [k \in 1..Len(s) |-> LowerChar(s[k])]

\* sub in s
Contains(sub, s) ==
    \E k \in 0..(Len(s) - Len(sub)) : SubSeq(s, k + 1, k + Len(sub)) = sub

ItalicFlag == 2

_infer_font_weight(font_name, flags) ==
    LET name_lower == Lower(font_name)
    IN  IF \/ Contains(<<"b", "o", "l", "d">>, name_lower)
           \/ Contains(<<"h", "e", "a", "v", "y">>, name_lower)
           \/ Contains(<<"b", "l", "a", "c", "k">>, name_lower)
        THEN "bold"
        ELSE IF HasFlag(flags, BoldFlag) THEN "bold"
        ELSE "normal"

_infer_font_style(font_name, flags) ==
    LET name_lower == Lower(font_name)
    IN  IF \/ Contains(<<"i", "t", "a", "l", "i", "c">>, name_lower)
           \/ Contains(<<"o", "b", "l", "i", "q", "u", "e">>, name_lower)
        THEN "italic"
        ELSE IF HasFlag(flags, ItalicFlag) THEN "italic"
        ELSE "normal"

SizeSamples == 8..23

\* The flags of a span: superscript 1, italic 2, serif 4, monospace 8,
\* bold 16.
FlagsSamples == 0..31

FontSamples ==
    {<<"H", "e", "l", "v">>, <<"A", "-", "B", "o", "l", "d">>,
     <<"T", "-", "I", "t", "a", "l", "i", "c">>, <<"H", "E", "A", "V", "Y">>}

NoStyle == [font_weight |-> "none", font_style |-> "none"]

StyleInit ==
    /\ style_size \in SizeSamples
    /\ style_flags \in FlagsSamples
    /\ style_font \in FontSamples
    /\ tag_out = "none"
    /\ exact_style = NoStyle
    /\ inferred_style = NoStyle
    /\ style_called = {}

StyleIdle ==
    /\ style_size = 0
    /\ style_flags = 0
    /\ style_font = <<>>
    /\ tag_out = "none"
    /\ exact_style = NoStyle
    /\ inferred_style = NoStyle
    /\ style_called = {"_tag", "render_html_exact", "_extract_text_elements"}

StyleBlock ==
    [Paragraph(<<0, 0, 100, 10>>, <<"a">>, style_size, PyInt(0), style_flags)
        EXCEPT !.font = style_font]

\* kind = _tag(b)
CallTag ==
    /\ "_tag" \notin style_called
    /\ tag_out' = _tag(StyleBlock)
    /\ style_called' = style_called \cup {"_tag"}
    /\ UNCHANGED <<style_size, style_flags, style_font, exact_style, inferred_style>>
    /\ UNCHANGED <<colorVars, mergeVars, colVars, overlapVars, structVars, layoutVars, escapeVars, sectionsVars, sessionVars, requestVars, threadsVars>>

\* The text layer of render_html_exact for the block.
RenderExactStyle ==
    /\ "render_html_exact" \notin style_called
    /\ LET n == ExactNode(StyleBlock, <<StyleBlock>>, <<>>)
       IN  exact_style' = [font_weight |-> n.font_weight,
                           font_style |-> n.font_style]
    /\ style_called' = style_called \cup {"render_html_exact"}
    /\ UNCHANGED <<style_size, style_flags, style_font, tag_out, inferred_style>>
    /\ UNCHANGED <<colorVars, mergeVars, colVars, overlapVars, structVars, layoutVars, escapeVars, sectionsVars, sessionVars, requestVars, threadsVars>>

\* "font_weight": _infer_font_weight(font_name, flags),
\* "font_style": _infer_font_style(font_name, flags)
InferFontStyle ==
    /\ "_extract_text_elements" \notin style_called
    /\ inferred_style' = [font_weight |-> _infer_font_weight(style_font, style_flags),
                          font_style |-> _infer_font_style(style_font, style_flags)]
    /\ style_called' = style_called \cup {"_extract_text_elements"}
    /\ UNCHANGED <<style_size, style_flags, style_font, tag_out, exact_style>>
    /\ UNCHANGED <<colorVars, mergeVars, colVars, overlapVars, structVars, layoutVars, escapeVars, sectionsVars, sessionVars, requestVars, threadsVars>>

StyleNext == CallTag \/ RenderExactStyle \/ InferFontStyle

\* Bit 16 of a five-bit flags value.
IsBold(flags) == flags % 32 >= 16

\* C23: _tag gives h1 from size 22; h2 below 22 from size 17, or from size
\* 14 when bold; h3 below that from size 13; legal up to size 9; p for the
\* rest: one class for every size and flags value.
C23_TagBySizeAndBold ==
    "_tag" \in style_called =>
        /\ tag_out \in {"h1", "h2", "h3", "legal", "p"}
        /\ tag_out = "h1" <=> style_size >= 22
        /\ tag_out = "h2" <=>
              /\ style_size < 22
              /\ style_size >= 17 \/ (style_size >= 14 /\ IsBold(style_flags))
        /\ tag_out = "h3" <=>
              /\ style_size >= 13
              /\ style_size < 17
              /\ ~(style_size >= 14 /\ IsBold(style_flags))
        /\ tag_out = "legal" <=> style_size <= 9
        /\ tag_out = "p" <=> (style_size > 9 /\ style_size < 13)

\* A bold block of size 14 was classified h2.
C23_Witness ==
    /\ "_tag" \in style_called
    /\ style_size = 14
    /\ IsBold(style_flags)
    /\ tag_out = "h2"

\* The font name says nothing about weight or style.
PlainFontName ==
    /\ _infer_font_weight(style_font, 0) = "normal"
    /\ _infer_font_style(style_font, 0) = "normal"

\* C27: for every flags value, on a font whose name says nothing, the
\* font-weight and font-style of the pixel-exact rendering are those the
\* structured extractor infers.
C27_ExactStyleAgreesWithInferred ==
    ({"render_html_exact", "_extract_text_elements"} \subseteq style_called
        /\ PlainFontName)
      => exact_style = inferred_style

(***************************************************************************)
(* SessionManager (session_manager.py) called from several threads: every  *)
(* thread makes one call of create_session, delete_session or              *)
(* cleanup_expired_sessions, and the calls interleave at every point where *)
(* the lock is not held.                                                   *)
(***************************************************************************)
MaxThreads == 2

Threads == 1..MaxThreads

\* The sessions there are when the threads start; create_session makes a
\* new one.
StartedIds == {1, 2}
NewId(th) == 10 + th

IdleThread == [pc |-> "idle", op |-> "none", ids |-> <<>>, count |-> 0]

ThreadsInit ==
    /\ registered = StartedIds
    /\ dirs_on_disk = StartedIds
    /\ past_expiry \in SUBSET StartedIds
    /\ thread = [th \in Threads |-> IdleThread]
    /\ removed_count = 0

ThreadsIdle ==
    /\ registered = {}
    /\ dirs_on_disk = {}
    /\ past_expiry = {}
    /\ thread = <<>>
    /\ removed_count = 0

RECURSIVE AscendingIds(_)
\* The ids of a set as a list.
AscendingIds(S) ==
    IF S = {} THEN <<>>
    ELSE LET least == CHOOSE x \in S : \A y \in S : x <= y
         IN  <<least>> \o AscendingIds(S \ {least})

\* Where a call of delete_session goes once it has returned: the next id of
\* cleanup_expired_sessions, or the end of the thread's call.
AfterDelete(t, returned) ==
    [t EXCEPT !.ids = Tail(t.ids),
              !.count = IF returned THEN t.count + 1 ELSE t.count,
              !.pc = IF Len(t.ids) > 1 THEN "get" ELSE "done"]

\* create_session up to "session_dir.mkdir(parents=True, exist_ok=True)"
CreateMkdir(th) ==
    /\ thread[th].pc = "idle"
    /\ dirs_on_disk' = dirs_on_disk \cup {NewId(th)}
    /\ thread' = [thread EXCEPT ![th] =
                     [@ EXCEPT !.pc = "register", !.op = "create"]]
    /\ UNCHANGED <<registered, past_expiry, removed_count>>
    /\ UNCHANGED <<colorVars, mergeVars, colVars, overlapVars, structVars, layoutVars, escapeVars, sectionsVars, sessionVars, requestVars, styleVars>>

\* "with self._lock: self._sessions[session_id] = session_data"
CreateRegister(th) ==
    /\ thread[th].pc = "register"
    /\ registered' = registered \cup {NewId(th)}
    /\ thread' = [thread EXCEPT ![th] = [@ EXCEPT !.pc = "done"]]
    /\ UNCHANGED <<dirs_on_disk, past_expiry, removed_count>>
    /\ UNCHANGED <<colorVars, mergeVars, colVars, overlapVars, structVars, layoutVars, escapeVars, sectionsVars, sessionVars, requestVars, styleVars>>

\* A thread calls delete_session(session_id).
CallDelete(th) ==
    /\ thread[th].pc = "idle"
    /\ \E id \in StartedIds :
          thread' = [thread EXCEPT ![th] =
                        [@ EXCEPT !.pc = "get", !.op = "delete", !.ids = <<id>>]]
    /\ UNCHANGED <<registered, dirs_on_disk, past_expiry, removed_count>>
    /\ UNCHANGED <<colorVars, mergeVars, colVars, overlapVars, structVars, layoutVars, escapeVars, sectionsVars, sessionVars, requestVars, styleVars>>

\* A thread calls cleanup_expired_sessions: get_expired_sessions reads the
\* registry under the lock.
CallCleanup(th) ==
    /\ thread[th].pc = "idle"
    /\ LET expired == AscendingIds(registered \cap past_expiry)
       IN  thread' = [thread EXCEPT ![th] =
                         [@ EXCEPT !.pc = IF Len(expired) > 0 THEN "get" ELSE "done",
                                   !.op = "cleanup", !.ids = expired]]
    /\ UNCHANGED <<registered, dirs_on_disk, past_expiry, removed_count>>
    /\ UNCHANGED <<colorVars, mergeVars, colVars, overlapVars, structVars, layoutVars, escapeVars, sectionsVars, sessionVars, requestVars, styleVars>>

\* delete_session: "session = self.get_session(session_id)" and
\* "if not session: return False"
DeleteGet(th) ==
    /\ thread[th].pc = "get"
    /\ thread' = [thread EXCEPT ![th] =
                     IF Head(@.ids) \in registered THEN [@ EXCEPT !.pc = "rmtree"]
                     ELSE AfterDelete(@, FALSE)]
    /\ UNCHANGED <<registered, dirs_on_disk, past_expiry, removed_count>>
    /\ UNCHANGED <<colorVars, mergeVars, colVars, overlapVars, structVars, layoutVars, escapeVars, sectionsVars, sessionVars, requestVars, styleVars>>

\* delete_session: the directory is removed, outside the lock.
DeleteRmtree(th) ==
    /\ thread[th].pc = "rmtree"
    /\ dirs_on_disk' = dirs_on_disk \ {Head(thread[th].ids)}
    /\ thread' = [thread EXCEPT ![th] = [@ EXCEPT !.pc = "pop"]]
    /\ UNCHANGED <<registered, past_expiry, removed_count>>
    /\ UNCHANGED <<colorVars, mergeVars, colVars, overlapVars, structVars, layoutVars, escapeVars, sectionsVars, sessionVars, requestVars, styleVars>>

\* delete_session: "with self._lock: self._sessions.pop(session_id, None)"
\* and "return True"
DeletePop(th) ==
    /\ thread[th].pc = "pop"
    /\ registered' = registered \ {Head(thread[th].ids)}
    /\ removed_count' = IF Head(thread[th].ids) \in registered
                        THEN removed_count + 1 ELSE removed_count
    /\ thread' = [thread EXCEPT ![th] = AfterDelete(@, TRUE)]
    /\ UNCHANGED <<dirs_on_disk, past_expiry>>
    /\ UNCHANGED <<colorVars, mergeVars, colVars, overlapVars, structVars, layoutVars, escapeVars, sectionsVars, sessionVars, requestVars, styleVars>>

ThreadsNext ==
    \E th \in Threads :
        \/ CreateMkdir(th)
        \/ CreateRegister(th)
        \/ CallDelete(th)
        \/ CallCleanup(th)
        \/ DeleteGet(th)
        \/ DeleteRmtree(th)
        \/ DeletePop(th)

RECURSIVE TrueReturns(_)
\* How many calls of delete_session returned True, over the threads.
TrueReturns(S) ==
    IF S = {} THEN 0
    ELSE LET th == CHOOSE x \in S : TRUE
         IN  thread[th].count + TrueReturns(S \ {th})

\* C24: when all the calls have returned, the calls of delete_session that
\* returned True (the counts of cleanup_expired_sessions added up) are as
\* many as the sessions that were removed from the registry.
C24_DeletedCountedOnce ==
    (\A th \in Threads : thread[th].pc = "done")
        => TrueReturns(Threads) = removed_count

\* C30: in every state, every session of the registry has its directory on
\* disk.
C30_RegisteredSessionHasDirectory ==
    registered \subseteq dirs_on_disk

(***************************************************************************)
(* Specifications: one component runs, the others are parked.              *)
(***************************************************************************)
InitColor ==
    /\ ColorInit
    /\ MergeIdle
    /\ ColIdle
    /\ OverlapIdle
    /\ StructIdle
    /\ LayoutIdle
    /\ EscapeIdle
    /\ SectionsIdle
    /\ SessionIdle
    /\ RequestIdle
    /\ StyleIdle
    /\ ThreadsIdle

InitMerge ==
    /\ MergeInit
    /\ ColorIdle
    /\ ColIdle
    /\ OverlapIdle
    /\ StructIdle
    /\ LayoutIdle
    /\ EscapeIdle
    /\ SectionsIdle
    /\ SessionIdle
    /\ RequestIdle
    /\ StyleIdle
    /\ ThreadsIdle

InitCol ==
    /\ ColInit
    /\ ColorIdle
    /\ MergeIdle
    /\ OverlapIdle
    /\ StructIdle
    /\ LayoutIdle
    /\ EscapeIdle
    /\ SectionsIdle
    /\ SessionIdle
    /\ RequestIdle
    /\ StyleIdle
    /\ ThreadsIdle

SpecColor == InitColor /\ [][ColorNext]_vars

SpecMerge == InitMerge /\ [][MergeNext]_vars

SpecCol == InitCol /\ [][ColNext]_vars

InitOverlap ==
    /\ OverlapInit
    /\ ColorIdle
    /\ MergeIdle
    /\ ColIdle
    /\ StructIdle
    /\ LayoutIdle
    /\ EscapeIdle
    /\ SectionsIdle
    /\ SessionIdle
    /\ RequestIdle
    /\ StyleIdle
    /\ ThreadsIdle

SpecOverlap == InitOverlap /\ [][OverlapNext]_vars

InitStruct ==
    /\ StructInit
    /\ ColorIdle
    /\ MergeIdle
    /\ ColIdle
    /\ OverlapIdle
    /\ LayoutIdle
    /\ EscapeIdle
    /\ SectionsIdle
    /\ SessionIdle
    /\ RequestIdle
    /\ StyleIdle
    /\ ThreadsIdle

SpecStruct == InitStruct /\ [][StructNext]_vars

InitLayout ==
    /\ LayoutInit
    /\ ColorIdle
    /\ MergeIdle
    /\ ColIdle
    /\ OverlapIdle
    /\ StructIdle
    /\ EscapeIdle
    /\ SectionsIdle
    /\ SessionIdle
    /\ RequestIdle
    /\ StyleIdle
    /\ ThreadsIdle

SpecLayout == InitLayout /\ [][LayoutNext]_vars

InitEscape ==
    /\ EscapeInit
    /\ ColorIdle
    /\ MergeIdle
    /\ ColIdle
    /\ OverlapIdle
    /\ StructIdle
    /\ LayoutIdle
    /\ SectionsIdle
    /\ SessionIdle
    /\ RequestIdle
    /\ StyleIdle
    /\ ThreadsIdle

SpecEscape == InitEscape /\ [][EscapeNext]_vars

InitSections ==
    /\ SectionsInit
    /\ ColorIdle
    /\ MergeIdle
    /\ ColIdle
    /\ OverlapIdle
    /\ StructIdle
    /\ LayoutIdle
    /\ EscapeIdle
    /\ SessionIdle
    /\ RequestIdle
    /\ StyleIdle
    /\ ThreadsIdle

SpecSections == InitSections /\ [][SectionsNext]_vars

InitSession ==
    /\ SessionInit
    /\ ColorIdle
    /\ MergeIdle
    /\ ColIdle
    /\ OverlapIdle
    /\ StructIdle
    /\ LayoutIdle
    /\ EscapeIdle
    /\ SectionsIdle
    /\ RequestIdle
    /\ StyleIdle
    /\ ThreadsIdle

SpecSession == InitSession /\ [][SessionNext]_vars

\* The task's sleeps end, and an iteration that is attempted again and
\* again returns without error at some attempt.
SpecSessionLive ==
    SpecSession /\ WF_vars(WakeUp) /\ SF_vars(CleanupRun)

InitRequest ==
    /\ RequestInit
    /\ ColorIdle
    /\ MergeIdle
    /\ ColIdle
    /\ OverlapIdle
    /\ StructIdle
    /\ LayoutIdle
    /\ EscapeIdle
    /\ SectionsIdle
    /\ SessionIdle
    /\ StyleIdle
    /\ ThreadsIdle

SpecRequest == InitRequest /\ [][RequestNext]_vars

InitStyle ==
    /\ StyleInit
    /\ ColorIdle
    /\ MergeIdle
    /\ ColIdle
    /\ OverlapIdle
    /\ StructIdle
    /\ LayoutIdle
    /\ EscapeIdle
    /\ SectionsIdle
    /\ SessionIdle
    /\ RequestIdle
    /\ ThreadsIdle

SpecStyle == InitStyle /\ [][StyleNext]_vars

InitThreads ==
    /\ ThreadsInit
    /\ ColorIdle
    /\ MergeIdle
    /\ ColIdle
    /\ OverlapIdle
    /\ StructIdle
    /\ LayoutIdle
    /\ EscapeIdle
    /\ SectionsIdle
    /\ SessionIdle
    /\ RequestIdle
    /\ StyleIdle

SpecThreads == InitThreads /\ [][ThreadsNext]_vars

=============================================================================
